---------------------------- MODULE Spec2Model ----------------------------
(***************************************************************************)
(* A model of goliveview/controller: the topic registry of websocket      *)
(* connections (controller.go), the per-user stores (inmemStore) and the  *)
(* mount / upgrade handlers of the view revisions found in the sources.    *)
(***************************************************************************)
EXTENDS Integers, Sequences, FiniteSets, TLC

(***************************************************************************)
(* Bounds of the model.                                                    *)
(***************************************************************************)
MaxConns == 2
MaxUsers == 2
MaxCallers == 3
MaxLoopConns == 1
MaxCasts == 2
MaxCount == 2
MaxWords == 3
MaxRunes == 4

Topics == {"root", "_todos"}
NoTopic == "none"
Msgs == {"m1", "m2"}
ConnIDs == 1..MaxConns
Users == 1..MaxUsers
Keys == {"count", "title"}
Callers == 1..MaxCallers
LoopConns == 1..MaxLoopConns
AppNameKey == "app_name"
Name == "app"

VARIABLES
    topicConnections,   \* wc.topicConnections: topic -> (connID -> conn)
    closed,             \* per conn handle: Close() has been called on it
    nextConn,           \* the next connection id shortuuid.New() hands out
    pc,                 \* per connection: where its onEvent call stands
    connTopic,          \* per connection: the topic resolved for its request
    lastOp,             \* history: the call that produced this state
    removed,            \* history: the connections removeConnection was called for, with their topic
    stores,             \* wc.userSessions.stores: user -> store instance
    storeData,          \* per store instance: inmemStore.data, key -> bytes
    nextStore,          \* the identity the next &inmemStore{} gets
    storeOp,            \* history: the store call that produced this state
    lastPut,            \* history: per store whose Puts all succeeded, key -> value of the latest Put with that key
    everPut,            \* history: per store, the keys of every Put batch so far
    failedPut,          \* history: the stores on which a Put has failed
    usersLock,          \* userSessions.RWMutex: 0 when free, else the caller holding it
    callPc,             \* per caller (goroutine): where its call stands
    callKey,            \* per caller: the key it calls getOrCreate with
    callRet,            \* per caller: the value its call holds or has returned
    created,            \* history: per key, the stores getOrCreate made for it
    userCount,          \* wc.userCount: n, and lock (0 when free, else the caller holding it)
    drawn,              \* history: the values incr returned, in the order of the increments
    datasetKey,         \* history: a key given to SetDataset and the key of the dataset made from it
    receiver,           \* per connection: where the goroutine serving view.EventReceiver() stands
    locks,              \* the sync.RWMutex of each store instance and of each call's copy of a store
    storeCall,          \* per caller: the store call it is in (Put/Get, Set/Decode)
    watch,              \* the goroutine of watchTemplates: where its call of messageAll stands
    marked,             \* per connection: the keys its handler passed to Temporary in this call
    phase,              \* per goroutine serving a request: its operations and the one it is at
    mountData,          \* the mountData variable the handler closures share
    lastMount,          \* history: per user, the result of its latest mount callback
    connUser,           \* per connection: the user of its upgrade request
    event,              \* per connection: the message its loop read last and what the loop did for it
    tempKeys,           \* per connection: dom.temporaryKeys of its session context
    domOp,              \* history: the DOM operation that produced this state
    wcLock,             \* wc's mutex: 0 when free, else the connection whose call holds it
    castPc,             \* per connection: where its handler's call of message stands
    cast,               \* per connection: the call of message its handler is in
    inbox,              \* per conn handle: the messages written to it, in order
    nextCast            \* the number of the next acquisition of wc's mutex by message

regVars == <<topicConnections, closed>>
connVars == <<nextConn, pc, connTopic>>
registryVars == <<topicConnections, closed, nextConn, pc, connTopic, lastOp, removed>>
userVars == <<stores, storeData, nextStore>>
storeHist == <<storeOp, lastPut, everPut, failedPut>>
storeVars == <<stores, storeData, nextStore, storeOp, lastPut, everPut, failedPut>>
callVars == <<usersLock, callPc, callKey, callRet, created, userCount, drawn, datasetKey, receiver, locks, storeCall, watch, marked, phase>>
mountVars == <<mountData, lastMount, connUser>>
sessVars == <<event, tempKeys, domOp>>
castVars == <<wcLock, castPc, cast, inbox, nextCast>>
nonRegistryVars == <<storeVars, callVars, mountVars, sessVars, castVars>>
nonStoreVars == <<registryVars, callVars, mountVars, sessVars, castVars>>
vars == <<topicConnections, closed, nextConn, pc, connTopic, lastOp, removed,
          stores, storeData, nextStore, storeOp, lastPut, everPut, failedPut,
          usersLock, callPc, callKey, callRet, created, userCount, drawn, datasetKey, receiver,
          locks, storeCall, watch, marked, phase,
          mountData, lastMount, connUser,
          event, tempKeys, domOp,
          wcLock, castPc, cast, inbox, nextCast>>

----------------------------------------------------------------------------
(***************************************************************************)
(* Go maps as functions.                                                   *)
(***************************************************************************)
EmptyMap == [x \in {} |-> 0]

Range(f) == {f[x] : x \in DOMAIN f}

MapSet(m, k, v) == [x \in (DOMAIN m) \cup {k} |-> IF x = k THEN v ELSE m[x]]

MapDelete(m, k) == [x \in (DOMAIN m) \ {k} |-> m[x]]

\* every ordering of a finite set: the orders a range over a Go map may take
Perms(S) == {s \in [1..Cardinality(S) -> S] : \A x \in S : \E i \in DOMAIN s : s[i] = x}

\* the conn handle created by the upgrade that generated connID
ConnOf(connID) == connID

NoOp == [op |-> "init", topic |-> NoTopic, conn |-> 0, present |-> FALSE,
         attempted |-> {}, failed |-> {}, msg |-> "none"]

----------------------------------------------------------------------------
(***************************************************************************)
(* controller.go: the registry operations, each under wc.Lock().           *)
(***************************************************************************)

\* addConnection without the "if !ok" test: the topic's map is made anew
addConnectionFresh(topic, connID, sess) ==
    /\ topicConnections' = MapSet(topicConnections, topic, MapSet(EmptyMap, connID, sess))
    /\ UNCHANGED closed

addConnection(topic, connID, sess) ==
    LET withTopic == IF topic \in DOMAIN topicConnections
                     THEN topicConnections
                     ELSE MapSet(topicConnections, topic, EmptyMap)
    IN /\ topicConnections' = MapSet(withTopic, topic, MapSet(withTopic[topic], connID, sess))
       /\ UNCHANGED closed

\* removeConnection that closes the conn and leaves the maps as they are
removeConnectionKeep(topic, connID) ==
    /\ UNCHANGED topicConnections
    /\ closed' = IF topic \in DOMAIN topicConnections
                    /\ connID \in DOMAIN topicConnections[topic]
                 THEN [closed EXCEPT ![topicConnections[topic][connID]] = TRUE]
                 ELSE closed

\* removeConnection that never deletes the topic entry
removeConnectionLeaveTopic(topic, connID) ==
    IF topic \notin DOMAIN topicConnections
    THEN UNCHANGED regVars
    ELSE LET connMap == topicConnections[topic]
             ok == connID \in DOMAIN connMap
         IN /\ topicConnections' = [topicConnections EXCEPT ![topic] = MapDelete(connMap, connID)]
            /\ closed' = IF ok THEN [closed EXCEPT ![connMap[connID]] = TRUE] ELSE closed

removeConnection(topic, connID) ==
    IF topic \notin DOMAIN topicConnections
    THEN UNCHANGED regVars
    ELSE LET connMap == topicConnections[topic]
             ok == connID \in DOMAIN connMap
             after == IF ok THEN MapDelete(connMap, connID) ELSE connMap
         IN /\ topicConnections' = IF Cardinality(DOMAIN after) = 0
                                   THEN MapDelete(topicConnections, topic)
                                   ELSE [topicConnections EXCEPT ![topic] = after]
            /\ closed' = IF ok THEN [closed EXCEPT ![connMap[connID]] = TRUE] ELSE closed

\* whether conn.WritePreparedMessage fails: always on a closed handle, and
\* whenever the network fails the write (netFails, the environment's choice)
WriteFails(conn, netFails) == closed[conn] \/ conn \in netFails

NoWrites == [attempted |-> {}, failed |-> {}]

\* the write loop with "return" where the code has "continue"
RECURSIVE writeEachReturn(_, _, _)
writeEachReturn(order, conns, netFails) ==
    IF order = <<>> THEN NoWrites
    ELSE LET conn == conns[Head(order)]
         IN IF WriteFails(conn, netFails)
            THEN [attempted |-> {conn}, failed |-> {conn}]
            ELSE LET rest == writeEachReturn(Tail(order), conns, netFails)
                 IN [attempted |-> {conn} \cup rest.attempted, failed |-> rest.failed]

\* for connID, conn := range conns { write; on error: conn.Close(); continue }
RECURSIVE writeEach(_, _, _)
writeEach(order, conns, netFails) ==
    IF order = <<>> THEN NoWrites
    ELSE LET conn == conns[Head(order)]
             rest == writeEach(Tail(order), conns, netFails)
         IN IF WriteFails(conn, netFails)
            THEN [attempted |-> {conn} \cup rest.attempted, failed |-> {conn} \cup rest.failed]
            ELSE [attempted |-> {conn} \cup rest.attempted, failed |-> rest.failed]

\* message that enters the topic it does not find into the registry
messageMakesTopic(topic, msg, order, netFails) ==
    /\ topicConnections' = IF topic \in DOMAIN topicConnections THEN topicConnections
                           ELSE MapSet(topicConnections, topic, EmptyMap)
    /\ UNCHANGED closed
    /\ lastOp' = [NoOp EXCEPT !.op = "message", !.topic = topic, !.msg = msg]

\* message(topic, message): order is the map's iteration order
message(topic, msg, order, netFails) ==
    IF topic \notin DOMAIN topicConnections
    THEN /\ UNCHANGED regVars
         /\ lastOp' = [NoOp EXCEPT !.op = "message", !.topic = topic, !.msg = msg]
    ELSE LET conns == topicConnections[topic]
             w == writeEach(order, conns, netFails)
         IN /\ UNCHANGED topicConnections
            /\ closed' = [c \in DOMAIN closed |-> closed[c] \/ c \in w.failed]
            /\ lastOp' = [op |-> "message", topic |-> topic, conn |-> 0, present |-> FALSE,
                          attempted |-> w.attempted, failed |-> w.failed, msg |-> msg]

\* the connections of every topic, as messageAll's two loops meet them
AllConns == UNION {Range(topicConnections[t]) : t \in DOMAIN topicConnections}

\* the topic a registered conn is found under
TopicOfConn(conn) == CHOOSE t \in DOMAIN topicConnections : conn \in Range(topicConnections[t])

\* the orders of messageAll's nested ranges: topic by topic
NestedOrders ==
    {o \in Perms(AllConns) :
        \A i, j, k \in DOMAIN o :
            (i < j /\ j < k /\ TopicOfConn(o[i]) = TopicOfConn(o[k]))
                => TopicOfConn(o[j]) = TopicOfConn(o[i])}

\* a messageAll that stays within the topic it meets first
messageAllFirstTopic(msg, order, netFails) ==
    LET InFirst(c) == TopicOfConn(c) = TopicOfConn(order[1])
        w == writeEach(SelectSeq(order, InFirst), [c \in AllConns |-> c], netFails)
    IN /\ UNCHANGED topicConnections
       /\ closed' = [c \in DOMAIN closed |-> closed[c] \/ c \in w.failed]
       /\ lastOp' = [op |-> "messageAll", topic |-> NoTopic, conn |-> 0, present |-> FALSE,
                     attempted |-> w.attempted, failed |-> w.failed, msg |-> msg]

\* messageAll(message): order is the order of the nested ranges
messageAll(msg, order, netFails) ==
    LET w == writeEach(order, [c \in AllConns |-> c], netFails)
    IN /\ UNCHANGED topicConnections
       /\ closed' = [c \in DOMAIN closed |-> closed[c] \/ c \in w.failed]
       /\ lastOp' = [op |-> "messageAll", topic |-> NoTopic, conn |-> 0, present |-> FALSE,
                     attempted |-> w.attempted, failed |-> w.failed, msg |-> msg]

----------------------------------------------------------------------------
(***************************************************************************)
(* dom.go: the keys of a dataset.  A key is the sequence of its            *)
(* characters.                                                             *)
(***************************************************************************)

\* strings.ToUpper on the letters of the keys
UpperOf == [a |-> "A", b |-> "B", d |-> "D", f |-> "F", o |-> "O", r |-> "R",
            t |-> "T", x |-> "X", y |-> "Y", z |-> "Z"]

\* a ToUpper that leaves every character as it is
ToUpperNothing(ch) == ch

\* strings.ToUpper(string(runeValue))
ToUpper(ch) == IF ch \in DOMAIN UpperOf THEN UpperOf[ch] ELSE ch

\* the loop of kebabToCamelCase over the runes left, with its flag
RECURSIVE kebabLoop(_, _)
kebabLoop(rest, isToUpper) ==
    IF rest = <<>> THEN <<>>
    ELSE IF isToUpper THEN <<ToUpper(Head(rest))>> \o kebabLoop(Tail(rest), FALSE)
    ELSE IF Head(rest) = "-" THEN kebabLoop(Tail(rest), TRUE)
    ELSE <<Head(rest)>> \o kebabLoop(Tail(rest), FALSE)

kebabToCamelCase(kebab) == kebabLoop(kebab, FALSE)

DataPrefix == <<"d", "a", "t", "a", "-">>

\* strings.HasPrefix(k, prefix) / strings.TrimPrefix(k, prefix)
HasPrefix(k, prefix) == Len(k) >= Len(prefix) /\ SubSeq(k, 1, Len(prefix)) = prefix

TrimPrefix(k, prefix) == IF HasPrefix(k, prefix) THEN SubSeq(k, Len(prefix) + 1, Len(k)) ELSE k

\* SetDataset: the key under which the value of k goes into the dataset
DatasetKeyOf(k) ==
    kebabToCamelCase(IF HasPrefix(k, DataPrefix) THEN TrimPrefix(k, DataPrefix) ELSE k)

\* the words the keys are made of
Words == {<<"f", "o", "o">>, <<"b", "a", "r">>, <<"b", "a", "z">>, <<"x">>, <<"y">>, <<"z">>,
          <<"d", "a", "t", "a">>}

WordLists == UNION {[1..n -> Words] : n \in 1..MaxWords}

\* the words joined by single hyphens
RECURSIVE Join(_)
Join(ws) == IF Len(ws) = 1 THEN ws[1] ELSE ws[1] \o <<"-">> \o Join(Tail(ws))

\* SetDataset: d.setStore(data) is called with data itself, whose keys the
\* loop over data has not changed (the loop assigns to its own variable k);
\* setStore deletes the temporary keys, none of which is made of these words
StoredKeysOf(k) == {k}

NoKey == [words |-> <<>>, prefix |-> FALSE, trailing |-> FALSE, key |-> <<>>,
          camelCase |-> <<>>, dataset |-> <<>>, stored |-> {}]

----------------------------------------------------------------------------
(***************************************************************************)
(* Values of an M (map[string]interface{}) and their JSON encoding.        *)
(***************************************************************************)
IntV(n) == [kind |-> "int", n |-> n, s |-> ""]
StrV(s) == [kind |-> "str", n |-> 0, s |-> s]
BoolV(b) == [kind |-> "bool", n |-> IF b THEN 1 ELSE 0, s |-> ""]
ChanV == [kind |-> "chan", n |-> 0, s |-> ""]     \* a value encoding/json cannot marshal
NoValue == [kind |-> "none", n |-> 0, s |-> ""]

Values == {IntV(1), IntV(12)}

\* the maps with keys in K and values in V
Maps(K, V) == UNION {[D -> V] : D \in SUBSET K}

DigitChars == <<"0", "1", "2", "3", "4", "5", "6", "7", "8", "9">>
DigitVal(ch) == (CHOOSE i \in DOMAIN DigitChars : DigitChars[i] = ch) - 1
IsDigit(ch) == \E i \in DOMAIN DigitChars : DigitChars[i] = ch
Quote == "\""

RECURSIVE Itoa(_)
Itoa(n) == IF n < 10 THEN <<DigitChars[n + 1]>>
           ELSE Append(Itoa(n \div 10), DigitChars[(n % 10) + 1])

RECURSIVE Atoi(_)
Atoi(b) == IF Len(b) = 1 THEN DigitVal(b[1])
           ELSE 10 * Atoi(SubSeq(b, 1, Len(b) - 1)) + DigitVal(b[Len(b)])

\* json.Marshal(&v): the bytes, or an error for a value JSON cannot hold
Marshal(v) ==
    CASE v.kind = "int" -> [err |-> "nil", data |-> Itoa(v.n)]
      [] v.kind = "str" -> [err |-> "nil", data |-> <<Quote, v.s, Quote>>]
      [] v.kind = "bool" -> [err |-> "nil", data |-> IF v.n = 1 THEN <<"true">> ELSE <<"false">>]
      [] OTHER          -> [err |-> "unsupported type", data |-> <<>>]

\* json.Unmarshal(data, v) into a destination of the given shape
Unmarshal(data, shape) ==
    IF data # <<>> /\ \A i \in DOMAIN data : IsDigit(data[i])
    THEN IF shape \in {"int", "any"}
         THEN [err |-> "nil", val |-> IntV(Atoi(data))]
         ELSE [err |-> "cannot unmarshal", val |-> NoValue]
    ELSE IF Len(data) = 3 /\ data[1] = Quote /\ data[3] = Quote
    THEN IF shape \in {"string", "any"}
         THEN [err |-> "nil", val |-> StrV(data[2])]
         ELSE [err |-> "cannot unmarshal", val |-> NoValue]
    ELSE IF data \in {<<"true">>, <<"false">>}
    THEN IF shape \in {"bool", "any"}
         THEN [err |-> "nil", val |-> BoolV(data = <<"true">>)]
         ELSE [err |-> "cannot unmarshal", val |-> NoValue]
    ELSE [err |-> "invalid", val |-> NoValue]

Shapes == {"int", "string"}

----------------------------------------------------------------------------
(***************************************************************************)
(* inmemStore (Put / Get) and userSessions.getOrCreate, each under its     *)
(* lock.                                                                   *)
(***************************************************************************)

\* Put that keeps the bytes a key already has
RECURSIVE PutEachKeepOld(_, _, _)
PutEachKeepOld(order, m, data) ==
    IF order = <<>> THEN [err |-> "nil", data |-> data]
    ELSE LET k == Head(order)
             enc == Marshal(m[k])
         IN IF enc.err # "nil" THEN [err |-> enc.err, data |-> data]
            ELSE PutEachKeepOld(Tail(order), m,
                                IF k \in DOMAIN data THEN data ELSE MapSet(data, k, enc.data))

\* a Put that writes all the entries or none
PutAllOrNothing(order, m, data) ==
    IF \E i \in DOMAIN order : Marshal(m[order[i]]).err # "nil"
    THEN [err |-> "unsupported type", data |-> data]
    ELSE [err |-> "nil",
          data |-> [x \in DOMAIN data \cup Range(order) |->
                       IF x \in Range(order) THEN Marshal(m[x]).data ELSE data[x]]]

\* for k, v := range m { data, err := json.Marshal(&v); if err: return err; s.data[k] = data }
RECURSIVE PutEach(_, _, _)
PutEach(order, m, data) ==
    IF order = <<>> THEN [err |-> "nil", data |-> data]
    ELSE LET k == Head(order)
             enc == Marshal(m[k])
         IN IF enc.err # "nil" THEN [err |-> enc.err, data |-> data]
            ELSE PutEach(Tail(order), m, MapSet(data, k, enc.data))

\* a Get that reports no error for a key that is absent
GetAbsentAsNil(data, key, shape) ==
    IF key \notin DOMAIN data THEN [err |-> "nil", val |-> NoValue]
    ELSE Unmarshal(data[key], shape)

\* (s *inmemStore).Get(key, v)
Get(data, key, shape) ==
    IF key \notin DOMAIN data THEN [err |-> "key not found", val |-> NoValue]
    ELSE Unmarshal(data[key], shape)

\* (u *userSessions).getOrCreate(key): the store returned is stores'[key]
getOrCreate(key) ==
    IF key \in DOMAIN stores
    THEN UNCHANGED <<stores, storeData, nextStore>>
    ELSE /\ stores' = MapSet(stores, key, nextStore)
         /\ storeData' = MapSet(storeData, nextStore, EmptyMap)
         /\ nextStore' = nextStore + 1

NoMount == [done |-> FALSE, d |-> EmptyMap]

NoStoreOp == [op |-> "init", store |-> 0, key |-> "", err |-> "nil", val |-> NoValue,
              m |-> EmptyMap, order |-> <<>>]

\* dom.temporaryKeys of a new session context
DefaultTemporaryKeys == {"selector", "template"}

NoMsg == [json |-> FALSE, id |-> ""]

\* a nil error
NilErr == [nil |-> TRUE, msg |-> "", wrapped |-> FALSE, inner |-> ""]

NoEvent == [read |-> FALSE, msg |-> NoMsg, prevBad |-> FALSE, calls |-> 0, log |-> <<>>, err |-> NilErr]

NoCast == [topic |-> NoTopic, msg |-> <<>>, todo |-> <<>>, seq |-> 0, seen |-> {}]

\* the goroutine of watchTemplates between two file events
NoWatch == [pc |-> "idle", todo |-> <<>>, seq |-> 0]

NoDomOp == [kind |-> "none", conn |-> 0, data |-> EmptyMap, ok |-> TRUE, prior |-> NoValue]

\* an RWMutex: the caller holding it for writing (0: none), the callers
\* holding it for reading
Unlocked == [writer |-> 0, readers |-> {}]

\* the mutex of store instance s; the mutex in the copy of a store that the
\* call of caller p works on
LockIds == ({"store"} \X (1..MaxUsers)) \cup ({"copy"} \X Callers)

NoStoreCall == [op |-> "none", store |-> 0, byValue |-> FALSE, m |-> EmptyMap, todo |-> <<>>,
                key |-> "", seen |-> EmptyMap]

\* a goroutine that serves no request yet
NoPhase == [prog |-> <<>>, at |-> 0]

InitStores ==
    /\ stores = EmptyMap
    /\ storeData = EmptyMap
    /\ nextStore = 1
    /\ storeOp = NoStoreOp
    /\ lastPut = EmptyMap
    /\ everPut = EmptyMap
    /\ failedPut = {}

\* the history of a store instance that did not exist before this step
HistOfNew(h, empty) == [s \in DOMAIN storeData' |-> IF s \in DOMAIN h THEN h[s] ELSE empty]

\* a call of getOrCreate(user)
CallGetOrCreate(user) ==
    /\ getOrCreate(user)
    /\ storeOp' = [NoStoreOp EXCEPT !.op = "getOrCreate"]
    /\ lastPut' = HistOfNew(lastPut, EmptyMap)
    /\ everPut' = HistOfNew(everPut, {})
    /\ UNCHANGED failedPut

\* what a Put of m on store s does to the store and to the history
PutStep(s, m, order) ==
    LET r == PutEach(order, m, storeData[s])
    IN /\ storeData' = [storeData EXCEPT ![s] = r.data]
       /\ storeOp' = [NoStoreOp EXCEPT !.op = "Put", !.err = r.err]
       /\ everPut' = [everPut EXCEPT ![s] = @ \cup DOMAIN m]
       /\ lastPut' = IF r.err = "nil" /\ s \notin failedPut
                      THEN [lastPut EXCEPT ![s] =
                               [k \in DOMAIN @ \cup DOMAIN m |-> IF k \in DOMAIN m THEN m[k] ELSE @[k]]]
                      ELSE [lastPut EXCEPT ![s] = EmptyMap]
       /\ failedPut' = IF r.err = "nil" THEN failedPut ELSE failedPut \cup {s}

\* a call of Put(m) on the store of a user; order is the range order over m
CallPut(user, m) ==
    /\ user \in DOMAIN stores
    /\ \E order \in Perms(DOMAIN m) : PutStep(stores[user], m, order)
    /\ UNCHANGED <<stores, nextStore>>

\* a call of Get(key, v) on the store of a user
CallGet(user, key, shape) ==
    /\ user \in DOMAIN stores
    /\ LET r == Get(storeData[stores[user]], key, shape)
       IN storeOp' = [NoStoreOp EXCEPT !.op = "Get", !.store = stores[user], !.key = key,
                                       !.err = r.err, !.val = r.val]
    /\ UNCHANGED <<userVars, lastPut, everPut, failedPut>>

----------------------------------------------------------------------------
(***************************************************************************)
(* The registry and the life of a connection in onEvent: upgrade and      *)
(* addConnection, the read loop, removeConnection at the loop's end, the   *)
(* deferred Close.  Broadcasts and removals may come at any time.          *)
(***************************************************************************)
Init ==
    /\ topicConnections = EmptyMap
    /\ closed = [c \in ConnIDs |-> FALSE]
    /\ nextConn = 1
    /\ pc = [c \in ConnIDs |-> "New"]
    /\ connTopic = [c \in ConnIDs |-> NoTopic]
    /\ lastOp = NoOp
    /\ removed = {}
    /\ InitStores
    /\ usersLock = 0
    /\ callPc = [p \in Callers |-> "idle"]
    /\ callKey = [p \in Callers |-> 0]
    /\ callRet = [p \in Callers |-> 0]
    /\ created = [u \in Users |-> {}]
    /\ userCount = [n |-> 0, lock |-> 0]
    /\ drawn = <<>>
    /\ datasetKey = NoKey
    /\ receiver = [c \in ConnIDs |-> "idle"]
    /\ locks = [l \in LockIds |-> Unlocked]
    /\ storeCall = [p \in Callers |-> NoStoreCall]
    /\ watch = NoWatch
    /\ marked = [c \in ConnIDs |-> {}]
    /\ phase = [p \in Callers |-> NoPhase]
    /\ mountData = EmptyMap
    /\ lastMount = [u \in Users |-> NoMount]
    /\ connUser = [c \in ConnIDs |-> 0]
    /\ event = [c \in ConnIDs |-> NoEvent]
    /\ tempKeys = [c \in ConnIDs |-> DefaultTemporaryKeys]
    /\ domOp = NoDomOp
    /\ wcLock = 0
    /\ castPc = [c \in ConnIDs |-> "idle"]
    /\ cast = [c \in ConnIDs |-> NoCast]
    /\ inbox = [c \in ConnIDs |-> <<>>]
    /\ nextCast = 1

\* onEvent up to addConnection: upgrade, connID := shortuuid.New(), register
Subscribe(topic) ==
    /\ UNCHANGED nonRegistryVars
    /\ nextConn <= MaxConns
    /\ addConnection(topic, nextConn, ConnOf(nextConn))
    /\ pc' = [pc EXCEPT ![nextConn] = "Subscribed"]
    /\ connTopic' = [connTopic EXCEPT ![nextConn] = topic]
    /\ nextConn' = nextConn + 1
    /\ lastOp' = [NoOp EXCEPT !.op = "addConnection"]
    /\ UNCHANGED removed

\* a read that fails only when the peer goes away, not when the handle was
\* closed by a broadcast
ReadErrorOnlyPeer(c) ==
    /\ UNCHANGED nonRegistryVars
    /\ pc[c] = "Subscribed"
    /\ ~closed[ConnOf(c)]
    /\ pc' = [pc EXCEPT ![c] = "LoopEnded"]
    /\ lastOp' = [NoOp EXCEPT !.op = "readError"]
    /\ UNCHANGED <<regVars, nextConn, connTopic, removed>>

\* c.ReadMessage() returns an error (peer gone, or the handle was closed): break loop
ReadError(c) ==
    /\ UNCHANGED nonRegistryVars
    /\ pc[c] = "Subscribed"
    /\ pc' = [pc EXCEPT ![c] = "LoopEnded"]
    /\ lastOp' = [NoOp EXCEPT !.op = "readError"]
    /\ UNCHANGED <<regVars, nextConn, connTopic, removed>>

InTopic(topic, connID) ==
    topic \in DOMAIN topicConnections /\ connID \in DOMAIN topicConnections[topic]

\* a handler that returns after its loop without removeConnection
ExitNoRemove(c) ==
    /\ UNCHANGED nonRegistryVars
    /\ pc[c] = "LoopEnded"
    /\ UNCHANGED regVars
    /\ pc' = [pc EXCEPT ![c] = "Unregistered"]
    /\ lastOp' = [NoOp EXCEPT !.op = "removeConnection", !.topic = connTopic[c], !.conn = c,
                              !.present = InTopic(connTopic[c], c)]
    /\ removed' = removed \cup {c}
    /\ UNCHANGED <<nextConn, connTopic>>

\* after the loop: v.wc.removeConnection(*topic, connID)
ExitRemove(c) ==
    /\ UNCHANGED nonRegistryVars
    /\ pc[c] = "LoopEnded"
    /\ removeConnection(connTopic[c], c)
    /\ pc' = [pc EXCEPT ![c] = "Unregistered"]
    /\ lastOp' = [NoOp EXCEPT !.op = "removeConnection", !.topic = connTopic[c], !.conn = c,
                              !.present = InTopic(connTopic[c], c)]
    /\ removed' = removed \cup {c}
    /\ UNCHANGED <<nextConn, connTopic>>

\* defer c.Close() runs as onEvent returns
DeferredClose(c) ==
    /\ UNCHANGED nonRegistryVars
    /\ pc[c] = "Unregistered"
    /\ pc' = [pc EXCEPT ![c] = "Closed"]
    /\ closed' = [closed EXCEPT ![ConnOf(c)] = TRUE]
    /\ lastOp' = [NoOp EXCEPT !.op = "close"]
    /\ UNCHANGED <<topicConnections, nextConn, connTopic, removed>>

\* a call of removeConnection for a connection id that was handed out
CallRemove(topic, connID) ==
    /\ UNCHANGED nonRegistryVars
    /\ connID < nextConn
    /\ removeConnection(topic, connID)
    /\ lastOp' = [NoOp EXCEPT !.op = "removeConnection", !.topic = topic, !.conn = connID,
                              !.present = InTopic(topic, connID)]
    /\ removed' = IF topic = connTopic[connID] THEN removed \cup {connID} ELSE removed
    /\ UNCHANGED connVars

\* the registered handles a write can still reach: the network decides on these
OpenConns == {c \in AllConns : ~closed[c]}

TopicOrders(topic) ==
    IF topic \in DOMAIN topicConnections THEN Perms(DOMAIN topicConnections[topic]) ELSE {<<>>}

\* a call of message(topic, msg)
CallMessage(topic, msg) ==
    /\ UNCHANGED nonRegistryVars
    /\ \E order \in TopicOrders(topic) : \E netFails \in SUBSET (OpenConns \cap Range(order)) :
           message(topic, msg, order, netFails)
    /\ UNCHANGED <<connVars, removed>>

\* watchTemplates: wc.messageAll(m.Bytes())
CallMessageAll(msg) ==
    /\ UNCHANGED nonRegistryVars
    /\ \E order \in NestedOrders : \E netFails \in SUBSET OpenConns :
           messageAll(msg, order, netFails)
    /\ UNCHANGED <<connVars, removed>>

NextRegistry ==
    \/ \E t \in Topics : Subscribe(t)
    \/ \E c \in ConnIDs : ReadError(c)
    \/ \E c \in ConnIDs : ExitRemove(c)
    \/ \E c \in ConnIDs : DeferredClose(c)
    \/ \E t \in Topics, c \in ConnIDs : CallRemove(t, c)
    \/ \E t \in Topics, m \in Msgs : CallMessage(t, m)
    \/ \E m \in Msgs : CallMessageAll(m)

SpecRegistry == Init /\ [][NextRegistry]_vars

----------------------------------------------------------------------------
(***************************************************************************)
(* userSessions.getOrCreate step by step, for callers that run at the      *)
(* same time: Lock, the lookup, the creation, the deferred Unlock.         *)
(***************************************************************************)

\* a Lock that does not wait for the holder
UsersLockIgnored == TRUE

\* u.Lock() goes through only while nobody holds the lock
UsersLockFree == usersLock = 0

\* a goroutine calls getOrCreate(key)
GoCall(p, key) ==
    /\ callPc[p] = "idle"
    /\ callPc' = [callPc EXCEPT ![p] = "lock"]
    /\ callKey' = [callKey EXCEPT ![p] = key]
    /\ UNCHANGED <<usersLock, callRet, created, userVars>>

\* u.Lock()
GoLock(p) ==
    /\ callPc[p] = "lock"
    /\ UsersLockFree
    /\ usersLock' = p
    /\ callPc' = [callPc EXCEPT ![p] = "lookup"]
    /\ UNCHANGED <<callKey, callRet, created, userVars>>

\* s, ok := u.stores[key]; if ok { return s }
GoLookup(p) ==
    /\ callPc[p] = "lookup"
    /\ IF callKey[p] \in DOMAIN stores
       THEN /\ callRet' = [callRet EXCEPT ![p] = stores[callKey[p]]]
            /\ callPc' = [callPc EXCEPT ![p] = "unlock"]
       ELSE /\ callPc' = [callPc EXCEPT ![p] = "create"]
            /\ UNCHANGED callRet
    /\ UNCHANGED <<usersLock, callKey, created, userVars>>

\* s = &inmemStore{...}; u.stores[key] = s; return s
GoCreate(p) ==
    /\ callPc[p] = "create"
    /\ stores' = MapSet(stores, callKey[p], nextStore)
    /\ storeData' = MapSet(storeData, nextStore, EmptyMap)
    /\ nextStore' = nextStore + 1
    /\ callRet' = [callRet EXCEPT ![p] = nextStore]
    /\ created' = [created EXCEPT ![callKey[p]] = @ \cup {nextStore}]
    /\ callPc' = [callPc EXCEPT ![p] = "unlock"]
    /\ UNCHANGED <<usersLock, callKey>>

\* defer u.Unlock(), and the call returns
GoUnlock(p) ==
    /\ callPc[p] = "unlock"
    /\ usersLock' = 0
    /\ callPc' = [callPc EXCEPT ![p] = "done"]
    /\ UNCHANGED <<callKey, callRet, created, userVars>>

NextUsers ==
    \/ \E p \in Callers, u \in Users : GoCall(p, u) /\ UNCHANGED <<registryVars, storeHist, mountVars, sessVars, castVars, userCount, drawn, datasetKey, receiver, locks, storeCall, watch, marked, phase>>
    \/ \E p \in Callers : GoLock(p) /\ UNCHANGED <<registryVars, storeHist, mountVars, sessVars, castVars, userCount, drawn, datasetKey, receiver, locks, storeCall, watch, marked, phase>>
    \/ \E p \in Callers : GoLookup(p) /\ UNCHANGED <<registryVars, storeHist, mountVars, sessVars, castVars, userCount, drawn, datasetKey, receiver, locks, storeCall, watch, marked, phase>>
    \/ \E p \in Callers : GoCreate(p) /\ UNCHANGED <<registryVars, storeHist, mountVars, sessVars, castVars, userCount, drawn, datasetKey, receiver, locks, storeCall, watch, marked, phase>>
    \/ \E p \in Callers : GoUnlock(p) /\ UNCHANGED <<registryVars, storeHist, mountVars, sessVars, castVars, userCount, drawn, datasetKey, receiver, locks, storeCall, watch, marked, phase>>

SpecUsers == Init /\ [][NextUsers]_vars

\* C6: concurrent callers of getOrCreate with the same id all get the same
\* store, the registry creates at most one store per id (exactly one once a
\* call for it has returned), and calls with different ids get distinct stores.
C6_OneStorePerUser ==
    /\ \A p, q \in Callers :
           (callPc[p] = "done" /\ callPc[q] = "done")
               => (callRet[p] = callRet[q] <=> callKey[p] = callKey[q])
    /\ \A u \in Users : Cardinality(created[u]) <= 1
    /\ \A p \in Callers : callPc[p] = "done" => created[callKey[p]] = {callRet[p]}

\* two callers with the same id, one blocked on the lock while the other was
\* inside, have both returned, and so has a caller with another id
C6_Witness ==
    \E p, q, r \in Callers :
        /\ p # q /\ callKey[p] = callKey[q] /\ callKey[r] # callKey[p]
        /\ callPc[p] = "done" /\ callPc[q] = "done" /\ callPc[r] = "done"
        /\ callRet[p] = callRet[q] /\ callRet[r] # callRet[p]

----------------------------------------------------------------------------
(***************************************************************************)
(* getUser for requests that carry no user cookie (first visits), served   *)
(* at the same time: userCount.incr statement by statement, then           *)
(* cookieSession.Save.                                                     *)
(***************************************************************************)

\* a Lock that does not wait for the holder
CountLockIgnored == TRUE

\* u.Lock() goes through only while nobody holds the lock
CountLockFree == userCount.lock = 0

othersOfVisit == <<registryVars, storeVars, mountVars, sessVars, castVars, usersLock, callKey, created, datasetKey, receiver, locks, storeCall, watch, marked, phase>>

\* user == nil: c := wc.userCount.incr() is called
VisitCall(p) ==
    /\ callPc[p] = "idle"
    /\ callPc' = [callPc EXCEPT ![p] = "lock"]
    /\ UNCHANGED <<callRet, userCount, drawn, othersOfVisit>>

\* u.Lock()
VisitLock(p) ==
    /\ callPc[p] = "lock"
    /\ CountLockFree
    /\ userCount' = [userCount EXCEPT !.lock = p]
    /\ callPc' = [callPc EXCEPT ![p] = "read"]
    /\ UNCHANGED <<callRet, drawn, othersOfVisit>>

\* u.n = u.n + 1: the read of u.n
VisitRead(p) ==
    /\ callPc[p] = "read"
    /\ callRet' = [callRet EXCEPT ![p] = userCount.n]
    /\ callPc' = [callPc EXCEPT ![p] = "write"]
    /\ UNCHANGED <<userCount, drawn, othersOfVisit>>

\* u.n = u.n + 1: the write; return u.n
VisitWrite(p) ==
    /\ callPc[p] = "write"
    /\ userCount' = [userCount EXCEPT !.n = callRet[p] + 1]
    /\ callRet' = [callRet EXCEPT ![p] = callRet[p] + 1]
    /\ drawn' = Append(drawn, callRet[p] + 1)
    /\ callPc' = [callPc EXCEPT ![p] = "unlock"]
    /\ UNCHANGED othersOfVisit

\* defer u.Unlock()
VisitUnlock(p) ==
    /\ callPc[p] = "unlock"
    /\ userCount' = [userCount EXCEPT !.lock = IF @ = p THEN 0 ELSE @]
    /\ callPc' = [callPc EXCEPT ![p] = "save"]
    /\ UNCHANGED <<callRet, drawn, othersOfVisit>>

\* err := cookieSession.Save(r, w); if err != nil { return -1, err };
\* return user.(int), nil
VisitSave(p, ok) ==
    /\ callPc[p] = "save"
    /\ IF ok
       THEN /\ callPc' = [callPc EXCEPT ![p] = "done"]
            /\ UNCHANGED callRet
       ELSE /\ callPc' = [callPc EXCEPT ![p] = "failed"]
            /\ callRet' = [callRet EXCEPT ![p] = -1]
    /\ UNCHANGED <<userCount, drawn, othersOfVisit>>

NextVisits ==
    \/ \E p \in Callers : VisitCall(p)
    \/ \E p \in Callers : VisitLock(p)
    \/ \E p \in Callers : VisitRead(p)
    \/ \E p \in Callers : VisitWrite(p)
    \/ \E p \in Callers : VisitUnlock(p)
    \/ \E p \in Callers, ok \in BOOLEAN : VisitSave(p, ok)

SpecVisits == Init /\ [][NextVisits]_vars

\* the visits that have returned, with an id or with an error
C24_Returned == {p \in Callers : callPc[p] \in {"done", "failed"}}

C24_GotId == {p \in Callers : callPc[p] = "done"}

\* the numbers drawn from the counter are 1, 2, ... in the order of the draws
C24_DrawnInOrder == \A i \in DOMAIN drawn : drawn[i] = i

C24_IdsDistinctPositive ==
    /\ \A p \in C24_GotId : callRet[p] >= 1 /\ callRet[p] \in Range(drawn)
    /\ \A p, q \in C24_GotId : p # q => callRet[p] # callRet[q]

\* C24 as stated: the ids handed out on first visits are positive, pairwise
\* distinct and strictly increasing in assignment order, also when the
\* visits are concurrent; N first visits receive exactly the ids 1..N.
C24_VisitsGetOneToN ==
    /\ C24_DrawnInOrder
    /\ C24_IdsDistinctPositive
    /\ {callRet[p] : p \in C24_Returned} = 1..Cardinality(C24_Returned)

\* C24 amended: the ids handed out on first visits are positive, pairwise
\* distinct and strictly increasing in assignment order, also when the
\* visits are concurrent; N first visits draw exactly the numbers 1..N from
\* the counter, and a visit receives the number it drew unless saving its
\* session cookie fails: then it receives -1 with the error and its number
\* is handed to nobody.
C24_VisitsDrawOneToN ==
    /\ C24_DrawnInOrder
    /\ C24_IdsDistinctPositive
    /\ \A p \in Callers : callPc[p] = "failed" => callRet[p] = -1
    /\ Cardinality(C24_Returned) = Cardinality(Callers) => Range(drawn) = 1..Cardinality(Callers)

\* three concurrent first visits have returned with the ids 1, 2 and 3, the
\* first caller not with the first id
C24_Witness ==
    /\ C24_GotId = Callers
    /\ {callRet[p] : p \in Callers} = 1..Cardinality(Callers)
    /\ callRet[1] # 1

----------------------------------------------------------------------------
(***************************************************************************)
(* SetDataset called with one key: the key is the words joined by          *)
(* hyphens, after "data-" or not, followed by a hyphen or not.             *)
(***************************************************************************)

SetDatasetKey(ws, prefix, trailing) ==
    /\ datasetKey = NoKey
    /\ LET k == (IF prefix THEN DataPrefix ELSE <<>>) \o Join(ws)
                    \o (IF trailing THEN <<"-">> ELSE <<>>)
       IN datasetKey' = [words |-> ws, prefix |-> prefix, trailing |-> trailing, key |-> k,
                         camelCase |-> kebabToCamelCase(k), dataset |-> DatasetKeyOf(k),
                         stored |-> StoredKeysOf(k)]
    /\ UNCHANGED <<registryVars, storeVars, mountVars, sessVars, castVars,
                   usersLock, callPc, callKey, callRet, created, userCount, drawn, receiver,
                   locks, storeCall, watch, marked, phase>>

NextDataset ==
    \E ws \in WordLists, prefix \in BOOLEAN, trailing \in BOOLEAN : SetDatasetKey(ws, prefix, trailing)

SpecDataset == Init /\ [][NextDataset]_vars

\* the strings of up to MaxRunes runes over two letters and the hyphen
RuneStrings == UNION {[1..n -> {"a", "b", "-"}] : n \in 1..MaxRunes}

\* kebabToCamelCase called with any such string
KebabCall(kebab) ==
    /\ datasetKey = NoKey
    /\ datasetKey' = [NoKey EXCEPT !.key = kebab, !.camelCase = kebabToCamelCase(kebab)]
    /\ UNCHANGED <<registryVars, storeVars, mountVars, sessVars, castVars,
                   usersLock, callPc, callKey, callRet, created, userCount, drawn, receiver,
                   locks, storeCall, watch, marked, phase>>

NextKebab == \E kebab \in RuneStrings : KebabCall(kebab)

SpecKebab == Init /\ [][NextKebab]_vars

\* C35: the result of kebabToCamelCase contains no hyphen, whatever the
\* input, consecutive and leading hyphens included.
C35_NoHyphenLeft ==
    datasetKey # NoKey => \A i \in DOMAIN datasetKey.camelCase : datasetKey.camelCase[i] # "-"

\* the first word, then every other word with its first letter in upper case
RECURSIVE C25_Camel(_, _)
C25_Camel(ws, first) ==
    IF ws = <<>> THEN <<>>
    ELSE (IF first THEN ws[1] ELSE <<UpperOf[ws[1][1]]>> \o Tail(ws[1]))
             \o C25_Camel(Tail(ws), FALSE)

\* C25: for keys made of lowercase letters separated by single hyphens,
\* kebabToCamelCase removes each hyphen and uppercases the letter after it,
\* leaving all other letters unchanged; a trailing hyphen adds no character;
\* SetDataset strips a leading "data-" first.
C25_KebabToCamel ==
    datasetKey # NoKey =>
        LET all == (IF datasetKey.prefix THEN <<<<"d", "a", "t", "a">>>> ELSE <<>>)
                       \o datasetKey.words
            afterData == IF all[1] = <<"d", "a", "t", "a">> /\ (Len(all) > 1 \/ datasetKey.trailing)
                         THEN Tail(all) ELSE all
        IN /\ datasetKey.camelCase = C25_Camel(all, TRUE)
           /\ datasetKey.dataset = C25_Camel(afterData, TRUE)

\* C34: SetDataset puts each entry of its data into the store under the
\* key it has in the dataset operation (without "data-", in camelCase):
\* after SetDataset(sel, {"data-foo-bar": v}), Get("fooBar") finds v.
C34_StoredUnderDatasetKey ==
    datasetKey # NoKey => datasetKey.dataset \in datasetKey.stored

\* "data-foo-bar" gives "fooBar" in the dataset
C25_Witness ==
    /\ datasetKey.key = <<"d", "a", "t", "a", "-", "f", "o", "o", "-", "b", "a", "r">>
    /\ datasetKey.dataset = <<"f", "o", "o", "B", "a", "r">>
    /\ datasetKey.camelCase = <<"d", "a", "t", "a", "F", "o", "o", "B", "a", "r">>

\* the stores alone: calls of getOrCreate, Get and Put (of values JSON can hold) in any order
\* the batches the calls of Put are made with
PutBatches == Maps(Keys, Values)

NextStore ==
    \/ \E u \in Users : CallGetOrCreate(u) /\ UNCHANGED nonStoreVars
    \/ \E u \in Users : \E m \in PutBatches :
          CallPut(u, m) /\ UNCHANGED nonStoreVars
    \/ \E u \in Users, k \in Keys, sh \in Shapes :
          CallGet(u, k, sh) /\ UNCHANGED nonStoreVars

SpecStore == Init /\ [][NextStore]_vars

\* the stores under Puts that may fail: batches with values encoding/json
\* cannot marshal among the others
FailingBatches == Maps(Keys, Values \cup {ChanV})

\* a call of Put(m) on the store of a user whose range over m goes in the
\* given order; storeOp keeps the batch and the order
CallPutRanged(user, m, order) ==
    /\ user \in DOMAIN stores
    /\ LET s == stores[user]
           r == PutEach(order, m, storeData[s])
       IN /\ storeData' = [storeData EXCEPT ![s] = r.data]
          /\ storeOp' = [NoStoreOp EXCEPT !.op = "Put", !.store = s, !.err = r.err,
                                          !.m = m, !.order = order]
    /\ UNCHANGED <<stores, nextStore, lastPut, everPut, failedPut>>

NextPutFail ==
    \/ \E u \in Users : CallGetOrCreate(u) /\ UNCHANGED nonStoreVars
    \/ \E u \in Users : \E m \in FailingBatches : \E order \in Perms(DOMAIN m) :
          CallPutRanged(u, m, order) /\ UNCHANGED nonStoreVars

SpecPutFail == Init /\ [][NextPutFail]_vars

\* the place in the range of the first entry that json.Marshal rejects
FirstFailing(m, order) ==
    CHOOSE i \in DOMAIN order :
        /\ Marshal(m[order[i]]).err # "nil"
        /\ \A j \in 1..(i - 1) : Marshal(m[order[j]]).err = "nil"

\* the entry of key k in a store's map: absent, or its bytes
Entry(data, k) == IF k \in DOMAIN data THEN <<data[k]>> ELSE <<>>

C19_Fails == storeOp.op = "Put" /\ \E k \in DOMAIN storeOp.m : Marshal(storeOp.m[k]).err # "nil"

C19_Step ==
    C19_Fails' =>
        LET m == storeOp'.m
            order == storeOp'.order
            s == storeOp'.store
            i == FirstFailing(m, order)
            before == {order[j] : j \in 1..(i - 1)}
        IN /\ storeOp'.err # "nil"
           /\ \A k \in before : Get(storeData'[s], k, "any") = [err |-> "nil", val |-> m[k]]
           /\ \A k \in Keys \ before : Entry(storeData'[s], k) = Entry(storeData[s], k)
           /\ DOMAIN storeData'[s] \subseteq Keys
           /\ \A t \in DOMAIN storeData \ {s} : storeData'[t] = storeData[t]

\* C19: if serializing some entry fails during Put, the call returns an
\* error, the entries serialized before the failing one are written with
\* their new values, and the entries not yet reached and all keys outside
\* the batch keep their previous state.
C19_FailedPutKeepsPrefix == [][C19_Step]_vars

\* a Put that failed at its second entry: the first entry's new value has
\* replaced another value
C19_Witness ==
    /\ storeOp.op = "Put"
    /\ storeOp.err # "nil"
    /\ storeOp.order = <<"count", "title">>
    /\ storeOp.m = [k \in Keys |-> IF k = "count" THEN IntV(12) ELSE ChanV]
    /\ Get(storeData[storeOp.store], "count", "int").val = IntV(12)
    /\ Get(storeData[storeOp.store], "title", "int").val = IntV(1)

----------------------------------------------------------------------------
(***************************************************************************)
(* The calls of a store statement by statement, for callers that run at    *)
(* the same time: Put and Get of *inmemStore (pointer receiver), Set and   *)
(* Decode of store / inmemStore (value receiver: the call works on a copy  *)
(* of the struct, whose data map is the same map and whose RWMutex is a    *)
(* copy).                                                                  *)
(***************************************************************************)

\* the batches of the concurrent writers: both keys, the same value
TwinBatches == {[k \in Keys |-> v] : v \in Values}

\* the mutex that s.Lock() / s.RLock() of the call of p works on
LockOf(p) ==
    IF storeCall[p].byValue THEN <<"copy", p>> ELSE <<"store", storeCall[p].store>>

\* a Lock and an RLock that do not wait
LockNeverWaits(l) == TRUE

\* Lock goes through when nobody holds the mutex; RLock when no writer does
CanLock(l) == l.writer = 0 /\ l.readers = {}

CanRLock(l) == l.writer = 0

othersOfStoreCall ==
    <<registryVars, stores, nextStore, storeHist, mountVars, sessVars, castVars,
      usersLock, callKey, callRet, created, userCount, drawn, datasetKey, receiver, watch, marked, phase>>

\* a goroutine calls Put(m) / Set(m) on store s; order is the range order
StoreCallPut(p, s, m, order, byValue) ==
    /\ callPc[p] = "idle"
    /\ s \in DOMAIN storeData
    /\ storeCall' = [storeCall EXCEPT ![p] =
                        [NoStoreCall EXCEPT !.op = "Put", !.store = s, !.byValue = byValue,
                                            !.m = m, !.todo = order]]
    /\ callPc' = [callPc EXCEPT ![p] = "lock"]
    /\ UNCHANGED <<storeData, locks, othersOfStoreCall>>

\* a goroutine calls Get(key, v) / Decode(key, v) on store s
StoreCallGet(p, s, key, byValue) ==
    /\ callPc[p] = "idle"
    /\ s \in DOMAIN storeData
    /\ storeCall' = [storeCall EXCEPT ![p] =
                        [NoStoreCall EXCEPT !.op = "Get", !.store = s, !.byValue = byValue,
                                            !.key = key]]
    /\ callPc' = [callPc EXCEPT ![p] = "rlock"]
    /\ UNCHANGED <<storeData, locks, othersOfStoreCall>>

\* s.Lock()
StoreLock(p) ==
    /\ callPc[p] = "lock"
    /\ CanLock(locks[LockOf(p)])
    /\ locks' = [locks EXCEPT ![LockOf(p)].writer = p]
    /\ callPc' = [callPc EXCEPT ![p] = "write"]
    /\ UNCHANGED <<storeData, storeCall, othersOfStoreCall>>

\* one pass of the range: data, err := json.Marshal(&v); s.data[k] = data
StoreWrite(p) ==
    /\ callPc[p] = "write"
    /\ storeCall[p].todo # <<>>
    /\ LET k == Head(storeCall[p].todo)
           enc == Marshal(storeCall[p].m[k])
       IN IF enc.err # "nil"
          THEN /\ storeCall' = [storeCall EXCEPT ![p].todo = <<>>]
               /\ UNCHANGED storeData
          ELSE /\ storeData' = [storeData EXCEPT ![storeCall[p].store] = MapSet(@, k, enc.data)]
               /\ storeCall' = [storeCall EXCEPT ![p].todo = Tail(@)]
    /\ UNCHANGED <<callPc, locks, othersOfStoreCall>>

\* the range is over: defer s.Unlock(), the call returns
StoreUnlock(p) ==
    /\ callPc[p] = "write"
    /\ storeCall[p].todo = <<>>
    /\ locks' = [locks EXCEPT ![LockOf(p)].writer = 0]
    /\ callPc' = [callPc EXCEPT ![p] = "done"]
    /\ UNCHANGED <<storeData, storeCall, othersOfStoreCall>>

\* s.RLock()
StoreRLock(p) ==
    /\ callPc[p] = "rlock"
    /\ CanRLock(locks[LockOf(p)])
    /\ locks' = [locks EXCEPT ![LockOf(p)].readers = @ \cup {p}]
    /\ callPc' = [callPc EXCEPT ![p] = "read"]
    /\ UNCHANGED <<storeData, storeCall, othersOfStoreCall>>

\* data, ok := s.data[key] ...: the call reads the map
StoreRead(p) ==
    /\ callPc[p] = "read"
    /\ storeCall' = [storeCall EXCEPT ![p].seen = storeData[storeCall[p].store]]
    /\ callPc' = [callPc EXCEPT ![p] = "runlock"]
    /\ UNCHANGED <<storeData, locks, othersOfStoreCall>>

\* a Get that returns with its read lock held
StoreRKeep(p) ==
    /\ callPc[p] = "runlock"
    /\ callPc' = [callPc EXCEPT ![p] = "done"]
    /\ UNCHANGED <<locks, storeData, storeCall, othersOfStoreCall>>

\* defer s.RUnlock(), the call returns
StoreRUnlock(p) ==
    /\ callPc[p] = "runlock"
    /\ locks' = [locks EXCEPT ![LockOf(p)].readers = @ \ {p}]
    /\ callPc' = [callPc EXCEPT ![p] = "done"]
    /\ UNCHANGED <<storeData, storeCall, othersOfStoreCall>>

\* the steps of the calls in progress, whatever the receiver
StoreCallSteps ==
    \/ \E p \in Callers : StoreLock(p)
    \/ \E p \in Callers : StoreWrite(p)
    \/ \E p \in Callers : StoreUnlock(p)
    \/ \E p \in Callers : StoreRLock(p)
    \/ \E p \in Callers : StoreRead(p)
    \/ \E p \in Callers : StoreRUnlock(p)

\* Put / Get on *inmemStore
NextStoreCalls ==
    \/ \E u \in Users : CallGetOrCreate(u) /\ UNCHANGED nonStoreVars
    \/ \E p \in Callers, s \in 1..MaxUsers, m \in TwinBatches, order \in Perms(Keys) :
          StoreCallPut(p, s, m, order, FALSE)
    \/ \E p \in Callers, s \in 1..MaxUsers, k \in Keys : StoreCallGet(p, s, k, FALSE)
    \/ StoreCallSteps

SpecStoreCalls == Init /\ [][NextStoreCalls]_vars

\* Set / Decode on store and inmemStore with value receivers
NextStoreByValue ==
    \/ \E u \in Users : CallGetOrCreate(u) /\ UNCHANGED nonStoreVars
    \/ \E p \in Callers, s \in 1..MaxUsers, m \in TwinBatches, order \in Perms(Keys) :
          StoreCallPut(p, s, m, order, TRUE)
    \/ \E p \in Callers, s \in 1..MaxUsers, k \in Keys : StoreCallGet(p, s, k, TRUE)
    \/ StoreCallSteps

SpecStoreByValue == Init /\ [][NextStoreByValue]_vars

\* the call of p is a Put / Set between its Lock and its Unlock
Writing(p) == storeCall[p].op = "Put" /\ callPc[p] = "write"

\* the call of p is a Get / Decode between its RLock and its RUnlock
Reading(p) == storeCall[p].op = "Get" /\ callPc[p] \in {"read", "runlock"}

\* the map as a Get / Decode found it holds both keys of the writers'
\* batches with the same bytes, or neither
WholeBatches(data) ==
    /\ ("count" \in DOMAIN data) <=> ("title" \in DOMAIN data)
    /\ "count" \in DOMAIN data => data["count"] = data["title"]

NoOverlap ==
    /\ \A p, q \in Callers :
           (Writing(p) /\ Reading(q)) => storeCall[p].store # storeCall[q].store
    /\ \A p, q \in Callers :
           (p # q /\ Writing(p) /\ Writing(q)) => storeCall[p].store # storeCall[q].store
    /\ \A p \in Callers : callPc[p] = "runlock" => WholeBatches(storeCall[p].seen)

\* C27: on one *inmemStore a Get never runs while a Put is between its
\* Lock and its Unlock, so no reader finds a partly applied multi-key Put,
\* and two Puts never overlap; several Gets may hold the read lock at the
\* same time.
C27_PutExcludesGetAndPut == NoOverlap

\* two Gets on the same store are reading at the same time, after a Put
C27_Witness ==
    \E p, q \in Callers :
        /\ p # q
        /\ Reading(p) /\ Reading(q)
        /\ storeCall[p].store = storeCall[q].store
        /\ "count" \in DOMAIN storeData[storeCall[p].store]

\* C28: in the value-receiver store (Set / Decode) a Set holds an exclusive
\* lock of the store for the whole call: no Decode and no other Set on the
\* same store runs while a Set is writing its entries.
C28_SetExcludesDecodeAndSet ==
    \A p, q \in Callers :
        (p # q /\ Writing(p) /\ (Writing(q) \/ Reading(q)))
            => storeCall[p].store # storeCall[q].store

\* the count the stores are seeded with at the upgrade: store.Put(mountData)
SeedCount == [k \in {"count"} |-> IntV(1)]

\* store.Put(v.mountData) of the upgrade, before the handlers run
SeedStoreCount(u) ==
    /\ \A p \in Callers : callPc[p] = "idle"
    /\ u \in DOMAIN stores
    /\ "count" \notin DOMAIN storeData[stores[u]]
    /\ CallPut(u, SeedCount)

\* the increment handler of a connection of the user of store s starts:
\* ctx.Store().Get("count", &n)
IncrementGet(p, s) ==
    /\ s \in DOMAIN storeData
    /\ "count" \in DOMAIN storeData[s]
    /\ StoreCallGet(p, s, "count", FALSE)

\* the count the handler of p got from its Get
CountRead(p) == Get(storeCall[p].seen, "count", "int").val.n

\* the handler is between its Get and its Put
BetweenGetAndPut(p) == callPc[p] = "done" /\ storeCall[p].op = "Get"

\* the handler goes on with n + 1: Morph / setStore, d.store.Put(data)
IncrementPut(p) ==
    /\ BetweenGetAndPut(p)
    /\ CountRead(p) <= MaxCount
    /\ storeCall' = [storeCall EXCEPT ![p].op = "Put",
                                      ![p].m = [k \in {"count"} |-> IntV(CountRead(p) + 1)],
                                      ![p].todo = <<"count">>]
    /\ callPc' = [callPc EXCEPT ![p] = "lock"]
    /\ UNCHANGED <<storeData, locks, othersOfStoreCall>>

NextIncrement ==
    \/ \E u \in Users : CallGetOrCreate(u) /\ UNCHANGED nonStoreVars
    \/ \E u \in Users : SeedStoreCount(u) /\ UNCHANGED nonStoreVars
    \/ \E p \in Callers, s \in 1..MaxUsers : IncrementGet(p, s)
    \/ \E p \in Callers : IncrementPut(p)
    \/ StoreCallSteps

SpecIncrement == Init /\ [][NextIncrement]_vars

\* the handlers whose increment of store s is complete (Get and Put done)
Incremented(s) ==
    {p \in Callers : callPc[p] = "done" /\ storeCall[p].op = "Put" /\ storeCall[p].store = s}

\* the handlers whose Put has written its count into store s
Wrote(s) ==
    {p \in Callers : /\ storeCall[p].op = "Put" /\ storeCall[p].store = s
                     /\ \/ callPc[p] = "done"
                        \/ callPc[p] = "write" /\ storeCall[p].todo = <<>>}

\* the locks that caller p holds
HeldBy(p) == {l \in LockIds : locks[l].writer = p \/ p \in locks[l].readers}

CountOf(s) == Get(storeData[s], "count", "int").val.n

\* C37: the lock of a store is held within single Put and Get calls only:
\* a handler between its Get and its Put holds no lock, so the Get-then-Put
\* of an increment is not atomic.  When n increments have written their
\* count, the count is above the seeded count by at least one and at most n.
C37_GetThenPutNotAtomic ==
    /\ \A p \in Callers :
           (callPc[p] \in {"idle", "lock", "rlock", "done"}) => HeldBy(p) = {}
    /\ \A s \in DOMAIN storeData :
           "count" \in DOMAIN storeData[s] =>
               /\ CountOf(s) <= SeedCount["count"].n + Cardinality(Wrote(s))
               /\ Wrote(s) # {} => CountOf(s) > SeedCount["count"].n

\* two handlers have completed their increments of the same store, both
\* read the seeded count, and the count is one higher, not two
C37_Witness ==
    \E p, q \in Callers :
        /\ p # q
        /\ \E s \in DOMAIN storeData :
               /\ Incremented(s) = {p, q}
               /\ \A r \in Callers \ {p, q} : callPc[r] = "idle"
               /\ CountOf(s) = SeedCount["count"].n + 1
        /\ CountRead(p) = SeedCount["count"].n
        /\ CountRead(q) = SeedCount["count"].n

----------------------------------------------------------------------------
(***************************************************************************)
(* The request handlers.  A request without the upgrade headers mounts the *)
(* view; an upgrade request registers the connection, seeds the user's     *)
(* store with the mount data and enters the read loop.                     *)
(***************************************************************************)

\* what the mount callbacks return
MountDatas == Maps({"count"}, Values)

\* what the event handlers put into the store
EventBatches == Maps({"count"}, Values) \ {EmptyMap}

\* mountData["app_name"] = wc.name
WithAppName(d) == MapSet(d, AppNameKey, StrV(Name))

StoreOfConn(c) == stores[connUser[c]]

\* Handler / onMount (controller.go, dom.go): the callback's result goes to
\* v.mountData, a field of the viewHandler made for this one request; the
\* mountData of the closure, which later requests start from, is not assigned
HandlerMount(u, d) ==
    /\ getOrCreate(u)
    /\ lastPut' = HistOfNew(lastPut, EmptyMap)
    /\ everPut' = HistOfNew(everPut, {})
    /\ lastMount' = [lastMount EXCEPT ![u] = [done |-> TRUE, d |-> d]]
    /\ lastOp' = [NoOp EXCEPT !.op = "onMount"]
    /\ UNCHANGED <<regVars, connVars, removed, storeOp, failedPut, callVars, castVars, sessVars, mountData, connUser>>

\* onEvent: upgrade, connID := shortuuid.New(), addConnection
HandlerUpgrade(u, topic) ==
    /\ nextConn <= MaxConns
    /\ addConnection(topic, nextConn, ConnOf(nextConn))
    /\ pc' = [pc EXCEPT ![nextConn] = "Added"]
    /\ connTopic' = [connTopic EXCEPT ![nextConn] = topic]
    /\ connUser' = [connUser EXCEPT ![nextConn] = u]
    /\ nextConn' = nextConn + 1
    /\ lastOp' = [NoOp EXCEPT !.op = "addConnection"]
    /\ UNCHANGED <<removed, storeVars, callVars, castVars, sessVars, mountData, lastMount>>

\* store := v.wc.userSessions.getOrCreate(v.user)
GetStore(c, from, to) ==
    /\ pc[c] = from
    /\ getOrCreate(connUser[c])
    /\ lastPut' = HistOfNew(lastPut, EmptyMap)
    /\ everPut' = HistOfNew(everPut, {})
    /\ pc' = [pc EXCEPT ![c] = to]
    /\ lastOp' = [NoOp EXCEPT !.op = "getOrCreate"]
    /\ UNCHANGED <<regVars, nextConn, connTopic, removed, storeOp, failedPut, callVars, castVars, sessVars, mountVars>>

\* store.Put(v.mountData) / store.Set(mountData): the request's mount data
\* is the closure's mountData
SeedStore(c, from, to) ==
    /\ pc[c] = from
    /\ \E order \in Perms(DOMAIN mountData) : PutStep(StoreOfConn(c), mountData, order)
    /\ pc' = [pc EXCEPT ![c] = to]
    /\ lastOp' = [NoOp EXCEPT !.op = "seed", !.conn = c]
    /\ UNCHANGED <<regVars, nextConn, connTopic, removed, stores, nextStore, callVars, castVars, sessVars, mountVars>>

HandlerGetStore(c) == GetStore(c, "Added", "HasStore")

HandlerSeed(c) == SeedStore(c, "HasStore", "Subscribed")

\* the loop reads an event and its handler puts a batch into the store
HandleEvent(c, m) ==
    /\ pc[c] = "Subscribed"
    /\ \E order \in Perms(DOMAIN m) : PutStep(StoreOfConn(c), m, order)
    /\ lastOp' = [NoOp EXCEPT !.op = "event", !.conn = c]
    /\ UNCHANGED <<regVars, connVars, removed, stores, nextStore, callVars, castVars, sessVars, mountVars>>

Next ==
    \/ \E u \in Users, d \in MountDatas : HandlerMount(u, d)
    \/ \E u \in Users, t \in Topics : HandlerUpgrade(u, t)
    \/ \E c \in ConnIDs : HandlerGetStore(c)
    \/ \E c \in ConnIDs : HandlerSeed(c)
    \/ \E c \in ConnIDs, m \in EventBatches : HandleEvent(c, m)
    \/ \E c \in ConnIDs : ReadError(c)
    \/ \E c \in ConnIDs : ExitRemove(c)
    \/ \E c \in ConnIDs : DeferredClose(c)

Spec == Init /\ [][Next]_vars

\* the view's topic resolver gives every request the same topic
DomTopic == "root"

\* the headers of a request: Connection and Upgrade
Requests == [connection : {"Upgrade", "keep-alive"}, upgrade : {"websocket", ""}]

\* a test that takes either header for an upgrade
IsUpgradeEither(r) == r.connection = "Upgrade" \/ r.upgrade = "websocket"

\* r.Header.Get("Connection") == "Upgrade" && r.Header.Get("Upgrade") == "websocket"
IsUpgrade(r) == r.connection = "Upgrade" /\ r.upgrade = "websocket"

\* the http.HandlerFunc that Handler returns: onEvent for an upgrade request
\* (up to addConnection), onMount otherwise
Handler(u, r, d) ==
    IF IsUpgrade(r) THEN HandlerUpgrade(u, DomTopic) ELSE HandlerMount(u, d)

NextHandler ==
    \/ \E u \in Users, r \in Requests, d \in MountDatas : Handler(u, r, d)
    \/ \E c \in ConnIDs : HandlerGetStore(c)
    \/ \E c \in ConnIDs : HandlerSeed(c)
    \/ \E c \in ConnIDs : ReadError(c)
    \/ \E c \in ConnIDs : ExitRemove(c)
    \/ \E c \in ConnIDs : DeferredClose(c)

SpecHandler == Init /\ [][NextHandler]_vars

C21_Step ==
    \A u \in Users, r \in Requests, d \in MountDatas :
        (~(r.connection = "Upgrade" /\ r.upgrade = "websocket") /\ Handler(u, r, d)) =>
            /\ UNCHANGED <<topicConnections, closed, nextConn, pc, connTopic, connUser, removed>>
            /\ lastOp'.op = "onMount"

\* C21: a request without the upgrade headers runs only the mount path: it
\* registers no connection in the topic registry, starts no read loop, and
\* leaves the set of registered connections unchanged.
C21_MountRegistersNothing == [][C21_Step]_vars

\* a mount request served while a connection is subscribed
C21_Witness ==
    /\ lastOp.op = "onMount"
    /\ \E c \in ConnIDs : pc[c] = "Subscribed" /\ InTopic(connTopic[c], c)
    /\ \E u \in Users : lastMount[u].done

\* C4: when a user's mount request obtained data D and the same user's later
\* upgrade succeeds, the user's store holds D[k] under every key k of D once
\* the store has been seeded, before the first event is read.
C4_StoreSeededWithMountData ==
    lastOp.op = "seed" =>
        LET u == connUser[lastOp.conn]
        IN lastMount[u].done =>
              \A k \in DOMAIN lastMount[u].d :
                  Get(storeData[stores[u]], k, "int") = [err |-> "nil", val |-> lastMount[u].d[k]]

(***************************************************************************)
(* The earlier revision (NewView / Handle): renderPage assigns the         *)
(* mountData variable that all requests of the view share, and             *)
(* handleSocket seeds the store before it registers the connection.        *)
(***************************************************************************)

\* renderPage / renderView: status, mountData = OnMount(w, r)
renderPage(u, d) ==
    /\ mountData' = WithAppName(d)
    /\ lastMount' = [lastMount EXCEPT ![u] = [done |-> TRUE, d |-> d]]
    /\ lastOp' = [NoOp EXCEPT !.op = "onMount"]
    /\ UNCHANGED <<regVars, connVars, removed, storeVars, callVars, castVars, sessVars, connUser>>

\* handleSocket: upgrade, connID := shortuuid.New()
handleSocketUpgrade(u, topic) ==
    /\ nextConn <= MaxConns
    /\ pc' = [pc EXCEPT ![nextConn] = "Upgraded"]
    /\ connTopic' = [connTopic EXCEPT ![nextConn] = topic]
    /\ connUser' = [connUser EXCEPT ![nextConn] = u]
    /\ nextConn' = nextConn + 1
    /\ lastOp' = [NoOp EXCEPT !.op = "upgrade"]
    /\ UNCHANGED <<regVars, removed, storeVars, callVars, castVars, sessVars, mountData, lastMount>>

handleSocketGetStore(c) == GetStore(c, "Upgraded", "HasStore")

handleSocketSeed(c) == SeedStore(c, "HasStore", "Seeded")

\* wc.addConnection(*topic, connID, c)
handleSocketAdd(c) ==
    /\ pc[c] = "Seeded"
    /\ addConnection(connTopic[c], c, ConnOf(c))
    /\ pc' = [pc EXCEPT ![c] = "Subscribed"]
    /\ lastOp' = [NoOp EXCEPT !.op = "addConnection"]
    /\ UNCHANGED <<nextConn, connTopic, removed, nonRegistryVars>>

NextNewView ==
    \/ \E u \in Users, d \in MountDatas : renderPage(u, d)
    \/ \E u \in Users, t \in Topics : handleSocketUpgrade(u, t)
    \/ \E c \in ConnIDs : handleSocketGetStore(c)
    \/ \E c \in ConnIDs : handleSocketSeed(c)
    \/ \E c \in ConnIDs : handleSocketAdd(c)
    \/ \E c \in ConnIDs : ReadError(c)
    \/ \E c \in ConnIDs : ExitRemove(c)
    \/ \E c \in ConnIDs : DeferredClose(c)

SpecNewView == Init /\ [][NextNewView]_vars

\* C5: whatever the interleaving of the mounts and upgrades of two users, the
\* data seeded into a user's store at upgrade is data of that user's own
\* mount callback result (next to the app_name the handler adds itself).
C5_SeedIsOwnMountData ==
    lastOp.op = "seed" =>
        LET u == connUser[lastOp.conn]
        IN \A k \in DOMAIN mountData \ {AppNameKey} :
              /\ lastMount[u].done
              /\ k \in DOMAIN lastMount[u].d
              /\ mountData[k] = lastMount[u].d[k]

----------------------------------------------------------------------------
(***************************************************************************)
(* dom.go: the DOM operations of a session context.  d names the dom of    *)
(* connection d: its topic, its user's store and its temporary keys.       *)
(***************************************************************************)

Operation(op, selector, value) == [op |-> op, selector |-> selector, value |-> value]

\* (m *Operation).Bytes(): json.Marshal of the struct, field by field
Bytes(m) == <<"op", m.op, "selector", m.selector, "value", m.value>>

\* an execution that never reports an error
ExecuteTemplateNoError(template, data, ok) == [err |-> "nil", html |-> <<template, data>>]

\* d.rootTemplate.ExecuteTemplate(&buf, template, data): the html is a
\* function of the template and the data; ok is whether the execution
\* succeeds (the template is defined and runs on the data)
ExecuteTemplate(template, data, ok) ==
    IF ok THEN [err |-> "nil", html |-> <<template, data>>]
    ELSE [err |-> "template", html |-> <<>>]

\* a loop that deletes nothing
StripNothing(data, temps) == data

\* for _, t := range d.temporaryKeys { delete(data, t) }
StripTemporary(data, temps) == [k \in DOMAIN data \ temps |-> data[k]]

\* d.wc.message(d.topic, m.Bytes()); the network fails none of the writes,
\* or all of them.  The write loop goes on after a failure, so what message
\* does is the same for every order of the range: one order is taken
Emit(d, m) ==
    LET order == CHOOSE o \in TopicOrders(connTopic[d]) : TRUE
    IN \E netFails \in {{}, OpenConns \cap Range(order)} :
          message(connTopic[d], Bytes(m), order, netFails)

\* a setStore that puts the data only when the broadcast before it reached
\* a connection
setStoreIfDelivered(d, data) ==
    LET kept == StripTemporary(data, tempKeys[d])
        s == StoreOfConn(d)
        delivered == lastOp'.attempted \ lastOp'.failed # {}
    IN \E order \in Perms(DOMAIN kept) :
          LET r == PutEach(order, kept, storeData[s])
          IN /\ storeData' = IF delivered THEN [storeData EXCEPT ![s] = r.data] ELSE storeData
             /\ storeOp' = [NoStoreOp EXCEPT !.op = "Put", !.err = r.err]
             /\ UNCHANGED <<lastPut, everPut, failedPut>>

\* (d *dom).setStore(data): the temporary keys are deleted, the rest is Put;
\* the error of the Put is logged
setStore(d, data) ==
    LET kept == StripTemporary(data, tempKeys[d])
        s == StoreOfConn(d)
    IN \E order \in Perms(DOMAIN kept) :
          LET r == PutEach(order, kept, storeData[s])
          IN /\ storeData' = [storeData EXCEPT ![s] = r.data]
             /\ storeOp' = [NoStoreOp EXCEPT !.op = "Put", !.err = r.err]
             /\ UNCHANGED <<lastPut, everPut, failedPut>>

\* a DOM operation that returns before it sends or stores anything
Dropped(d) ==
    /\ lastOp' = [NoOp EXCEPT !.op = "dropped", !.conn = d]
    /\ storeOp' = NoStoreOp
    /\ UNCHANGED <<regVars, storeData, lastPut, everPut, failedPut>>

\* a DOM operation that sends and does not call setStore
NoStore ==
    /\ storeOp' = NoStoreOp
    /\ UNCHANGED <<storeData, lastPut, everPut, failedPut>>

\* a Morph that sends the patch and does not call setStore
MorphSendOnly(d, selector, template, data, ok) ==
    LET r == ExecuteTemplate(template, data, ok)
    IN IF r.err # "nil" THEN Dropped(d)
       ELSE /\ Emit(d, Operation("morph", selector, r.html))
            /\ NoStore

\* (d *dom).Morph(selector, template, data)
Morph(d, selector, template, data, ok) ==
    LET r == ExecuteTemplate(template, data, ok)
    IN IF r.err # "nil" THEN Dropped(d)
       ELSE /\ Emit(d, Operation("morph", selector, r.html))
            /\ setStore(d, data)

\* (d *dom).SetAttributes(selector, data)
SetAttributes(d, selector, data) ==
    /\ Emit(d, Operation("setAttributes", selector, data))
    /\ setStore(d, data)

\* (d *dom).RemoveAttributes(selector, data): data is a list of names
RemoveAttributes(d, selector, names) ==
    /\ Emit(d, Operation("removeAttributes", selector, names))
    /\ NoStore

\* (d *dom).SetDataset(selector, data): the payload is data under the
\* camelCase forms of its keys; setStore gets data itself
SetDataset(d, selector, data) ==
    /\ Emit(d, Operation("dataset", selector, <<"camelCase", data>>))
    /\ setStore(d, data)

\* (d *dom).ToggleClassList(selector, boolData): the payload and the stored
\* data are copies of boolData
ToggleClassList(d, selector, boolData) ==
    /\ Emit(d, Operation("classlist", selector, boolData))
    /\ setStore(d, boolData)

\* (d *dom).AddClass(selector, class) / RemoveClass(selector, class)
AddClass(d, selector, class) ==
    /\ Emit(d, Operation("addClass", selector, class))
    /\ setStore(d, [k \in {class} |-> BoolV(TRUE)])

RemoveClass(d, selector, class) ==
    /\ Emit(d, Operation("removeClass", selector, class))
    /\ setStore(d, [k \in {class} |-> BoolV(FALSE)])

\* a selector "#name" or "name"
Sel(hash, name) == [hash |-> hash, name |-> name]

\* strings.TrimPrefix(selector, "#")
TrimHash(selector) == selector.name

\* (d *dom).SetValue(selector, value)
SetValue(d, selector, value) ==
    /\ Emit(d, Operation("setValue", selector, value))
    /\ setStore(d, [k \in {TrimHash(selector)} |-> value])

\* (d *dom).SetInnerHTML(selector, value)
SetInnerHTML(d, selector, value) ==
    /\ Emit(d, Operation("setInnerHTML", selector, value))
    /\ NoStore

\* (d *dom).Reload()
Reload(d) ==
    /\ Emit(d, Operation("reload", "", EmptyMap))
    /\ NoStore

----------------------------------------------------------------------------
(***************************************************************************)
(* onEvent: the read loop of a subscribed connection.                      *)
(***************************************************************************)

\* the frames a client may send: not JSON, JSON without an id, an event
InMsgs == {[json |-> FALSE, id |-> ""], [json |-> TRUE, id |-> ""], [json |-> TRUE, id |-> "increment"]}

\* a decoder that takes every frame for an event
DecodeAny(msg) == [err |-> "nil", event |-> [ID |-> "any"]]

\* json.NewDecoder(bytes.NewReader(message)).Decode(event)
Decode(msg) ==
    IF msg.json THEN [err |-> "nil", event |-> [ID |-> msg.id]]
    ELSE [err |-> "invalid character", event |-> [ID |-> ""]]

\* the errors a handler may return: nil, a plain error, an error wrapping
\* another with text of its own (fmt.Errorf("save: %w", e)) and without
\* (fmt.Errorf("%w", e)); msg is err.Error(), inner is errors.Unwrap(err).Error()
HandlerErrs ==
    {NilErr,
     [nil |-> FALSE, msg |-> "boom", wrapped |-> FALSE, inner |-> ""],
     [nil |-> FALSE, msg |-> "save: bad input", wrapped |-> TRUE, inner |-> "bad input"],
     [nil |-> FALSE, msg |-> "bad input", wrapped |-> TRUE, inner |-> "bad input"]}

DefaultUserErrorMessage == "internal error"

\* a UserError that returns the text of the error itself
UserErrorOuter(err) == err.msg

\* a UserError without the default: the error's text when nothing is wrapped
UserErrorNoDefault(err) == IF err.wrapped THEN err.inner ELSE err.msg

UserError(err) == IF err.wrapped THEN err.inner ELSE DefaultUserErrorMessage

ErrorSelector == "#glv-error"
ErrorTemplate == "glv-error"
ErrorKey == "error"

\* what a step of the loop did, read off the registry call it made
Emitted(step, ok) ==
    [step |-> step, ok |-> ok, sent |-> lastOp'.op = "message",
     msg |-> IF lastOp'.op = "message" THEN lastOp'.msg ELSE <<>>]

Invoked == [step |-> "OnEvent", ok |-> TRUE, sent |-> FALSE, msg |-> <<>>]

\* the frame is not an event the loop dispatches
Bad(msg) == ~msg.json \/ msg.id = ""

\* sessionContext.unsetError / setError
unsetError(d, ok) == Morph(d, ErrorSelector, ErrorTemplate, EmptyMap, ok)

setError(d, userMessage, ok) ==
    Morph(d, ErrorSelector, ErrorTemplate, [k \in {ErrorKey} |-> StrV(userMessage)], ok)

\* one pass of the loop up to the call of the handler: c.ReadMessage()
\* returns a frame; decode; on failure or an empty id continue; else
\* unsetError and v.view.OnEvent(sessCtx).  ok: the error template executes
ReadMessage(c, msg, ok) ==
    /\ pc[c] = "Subscribed"
    /\ LET dec == Decode(msg)
           seen == [NoEvent EXCEPT !.read = TRUE, !.msg = msg,
                                   !.prevBad = event[c].read /\ Bad(event[c].msg)]
       IN IF dec.err # "nil" \/ dec.event.ID = ""
          THEN /\ event' = [event EXCEPT ![c] = seen]
               /\ lastOp' = [NoOp EXCEPT !.op = "read", !.conn = c]
               /\ UNCHANGED <<regVars, pc, storeOp, storeData, lastPut, everPut, failedPut>>
          ELSE /\ unsetError(c, ok)
               /\ event' = [event EXCEPT ![c] =
                               [seen EXCEPT !.calls = 1, !.log = <<Emitted("unsetError", ok), Invoked>>]]
               /\ pc' = [pc EXCEPT ![c] = "InHandler"]
    /\ UNCHANGED <<nextConn, connTopic, removed, stores, nextStore, callVars, castVars, mountVars, tempKeys, domOp>>

\* the handler returns err; if eventHandlerErr != nil: setError(UserError(err), err)
HandlerReturn(c, err, ok) ==
    /\ pc[c] = "InHandler"
    /\ IF err.nil
       THEN /\ lastOp' = [NoOp EXCEPT !.op = "handled", !.conn = c]
            /\ event' = [event EXCEPT ![c].err = err]
            /\ UNCHANGED <<regVars, storeOp, storeData, lastPut, everPut, failedPut>>
       ELSE /\ setError(c, UserError(err), ok)
            /\ event' = [event EXCEPT ![c].err = err, ![c].log = Append(@, Emitted("setError", ok))]
    /\ pc' = [pc EXCEPT ![c] = "Subscribed"]
    /\ UNCHANGED <<nextConn, connTopic, removed, stores, nextStore, callVars, castVars, mountVars, tempKeys, domOp>>

NextLoop ==
    \/ \E u \in Users, t \in Topics : HandlerUpgrade(u, t)
    \/ \E c \in ConnIDs : HandlerGetStore(c)
    \/ \E c \in ConnIDs : HandlerSeed(c)
    \/ \E c \in LoopConns, msg \in InMsgs, ok \in BOOLEAN : ReadMessage(c, msg, ok)
    \/ \E c \in ConnIDs, err \in HandlerErrs, ok \in BOOLEAN : HandlerReturn(c, err, ok)
    \/ \E c \in ConnIDs : ReadError(c)
    \/ \E c \in ConnIDs : ExitRemove(c)
    \/ \E c \in ConnIDs : DeferredClose(c)

SpecLoop == Init /\ [][NextLoop]_vars

----------------------------------------------------------------------------
(***************************************************************************)
(* onEvent when the topic resolver may return nil: subscribeTopicFunc is   *)
(* not set, or it returns nil for the request.  NoTopic stands for the nil *)
(* pointer.                                                                *)
(***************************************************************************)

\* what topic = v.wc.subscribeTopicFunc(r) can be
ResolvedTopics == Topics \cup {NoTopic}

\* upgrade, connID := shortuuid.New(); if topic != nil { addConnection }
OnEventUpgrade(u, topic) ==
    /\ nextConn <= MaxConns
    /\ IF topic # NoTopic
       THEN addConnection(topic, nextConn, ConnOf(nextConn))
       ELSE UNCHANGED regVars
    /\ pc' = [pc EXCEPT ![nextConn] = "Added"]
    /\ connTopic' = [connTopic EXCEPT ![nextConn] = topic]
    /\ connUser' = [connUser EXCEPT ![nextConn] = u]
    /\ nextConn' = nextConn + 1
    /\ lastOp' = [NoOp EXCEPT !.op = "upgrade", !.topic = topic]
    /\ UNCHANGED <<removed, storeVars, callVars, castVars, sessVars, mountData, lastMount>>

\* err = store.Put(v.mountData)
OnEventSeed(c) == SeedStore(c, "HasStore", "Seeded")

\* a dereference that yields a topic even for a nil pointer
DerefAnyTopic(c, early) ==
    /\ pc[c] = "Seeded"
    /\ pc' = [pc EXCEPT ![c] = "Subscribed"]
    /\ lastOp' = [NoOp EXCEPT !.op = "deref", !.conn = c]
    /\ UNCHANGED <<regVars, nextConn, connTopic, removed, storeVars, callVars, castVars,
                   sessVars, mountVars>>

\* the session context is built with topic: *topic before the loop
\* (early); the revisions that build it in the loop, with
\* getTopicConnections(*topic), get there at the first valid event.
\* Dereferencing nil panics.
DerefTopic(c, early) ==
    /\ pc[c] = "Seeded"
    /\ pc' = [pc EXCEPT ![c] = IF connTopic[c] # NoTopic THEN "Subscribed"
                               ELSE IF early THEN "Panicked" ELSE "Unbound"]
    /\ lastOp' = [NoOp EXCEPT !.op = "deref", !.conn = c]
    /\ UNCHANGED <<regVars, nextConn, connTopic, removed, storeVars, callVars, castVars,
                   sessVars, mountVars>>

\* the loop of a request without topic reads a message: a message that
\* does not decode, or has no id, is skipped; for a valid one the session
\* is built and *topic panics
UnboundRead(c, msg) ==
    /\ pc[c] = "Unbound"
    /\ LET dec == Decode(msg)
       IN IF dec.err # "nil" \/ dec.event.ID = ""
          THEN UNCHANGED pc
          ELSE pc' = [pc EXCEPT ![c] = "Panicked"]
    /\ event' = [event EXCEPT ![c] = [NoEvent EXCEPT !.read = TRUE, !.msg = msg,
                                        !.prevBad = event[c].read /\ Bad(event[c].msg)]]
    /\ lastOp' = [NoOp EXCEPT !.op = "read", !.conn = c]
    /\ UNCHANGED <<regVars, nextConn, connTopic, removed, storeVars, callVars, castVars,
                   mountVars, tempKeys, domOp>>

\* c.ReadMessage() returns an error before any valid event: break loop
UnboundReadError(c) ==
    /\ pc[c] = "Unbound"
    /\ pc' = [pc EXCEPT ![c] = "LoopEnded"]
    /\ lastOp' = [NoOp EXCEPT !.op = "readError"]
    /\ UNCHANGED <<regVars, nextConn, connTopic, removed, nonRegistryVars>>

\* after the loop: if topic != nil { v.wc.removeConnection(*topic, connID) }
OnEventExit(c) ==
    /\ pc[c] = "LoopEnded"
    /\ IF connTopic[c] # NoTopic
       THEN /\ removeConnection(connTopic[c], c)
            /\ removed' = removed \cup {c}
            /\ lastOp' = [NoOp EXCEPT !.op = "removeConnection", !.topic = connTopic[c],
                                      !.conn = c, !.present = InTopic(connTopic[c], c)]
       ELSE /\ UNCHANGED <<regVars, removed>>
            /\ lastOp' = [NoOp EXCEPT !.op = "return", !.conn = c]
    /\ pc' = [pc EXCEPT ![c] = "Unregistered"]
    /\ UNCHANGED <<nextConn, connTopic, nonRegistryVars>>

\* the panic unwinds onEvent: defer c.Close() runs, nothing after the
\* dereference does, and the goroutine of the request ends
PanicUnwind(c) ==
    /\ pc[c] = "Panicked"
    /\ pc' = [pc EXCEPT ![c] = "Crashed"]
    /\ closed' = [closed EXCEPT ![ConnOf(c)] = TRUE]
    /\ lastOp' = [NoOp EXCEPT !.op = "close"]
    /\ UNCHANGED <<topicConnections, nextConn, connTopic, removed, nonRegistryVars>>

NextNilTopic ==
    \/ \E u \in Users, t \in ResolvedTopics : OnEventUpgrade(u, t)
    \/ \E c \in ConnIDs : HandlerGetStore(c)
    \/ \E c \in ConnIDs : OnEventSeed(c)
    \/ \E c \in ConnIDs, early \in BOOLEAN : DerefTopic(c, early)
    \/ \E c \in ConnIDs, msg \in InMsgs : UnboundRead(c, msg)
    \/ \E c \in ConnIDs : UnboundReadError(c)
    \/ \E c \in ConnIDs : PanicUnwind(c)
    \/ \E c \in LoopConns, msg \in InMsgs, ok \in BOOLEAN : ReadMessage(c, msg, ok)
    \/ \E c \in ConnIDs, err \in HandlerErrs, ok \in BOOLEAN : HandlerReturn(c, err, ok)
    \/ \E c \in ConnIDs : ReadError(c)
    \/ \E c \in ConnIDs : OnEventExit(c)
    \/ \E c \in ConnIDs : DeferredClose(c)

SpecNilTopic == Init /\ [][NextNilTopic]_vars

\* the upgraded requests whose resolver returned nil
WithoutTopic == {c \in ConnIDs : pc[c] # "New" /\ connTopic[c] = NoTopic}

\* C39: a connection whose request resolved to no topic is in no connection
\* map, removeConnection is never called for it, and no handler is ever
\* invoked for it: it never gets past the dereference of the topic, which
\* panics no later than at its first valid event.
C39_NilTopicNeverServed ==
    \A c \in WithoutTopic :
        /\ \A t \in DOMAIN topicConnections : c \notin DOMAIN topicConnections[t]
        /\ c \notin removed
        /\ event[c].calls = 0
        /\ pc[c] \notin {"Subscribed", "InHandler"}
        /\ (event[c].read /\ ~Bad(event[c].msg)) => pc[c] \in {"Panicked", "Crashed"}

\* a request without topic has panicked at its first valid event while a
\* connection with a topic is in its handler
C39_Witness ==
    \E c \in WithoutTopic : \E d \in ConnIDs \ WithoutTopic :
        /\ pc[c] = "Panicked"
        /\ event[c].read
        /\ pc[d] = "InHandler"
        /\ InTopic(connTopic[d], d)

----------------------------------------------------------------------------
(***************************************************************************)
(* onEvent for a view whose EventReceiver() is not nil: next to the read   *)
(* loop, a goroutine takes the events of the channel and calls OnEvent     *)
(* with the connection's session context.                                  *)
(***************************************************************************)

othersOfReceiver ==
    <<regVars, connVars, removed, storeVars, mountVars, sessVars, castVars,
      usersLock, callPc, callKey, callRet, created, userCount, drawn, datasetKey,
      locks, storeCall, watch, marked, phase>>

\* case event := <-v.view.EventReceiver(): sessCtx.event = event;
\* v.view.OnEvent(sessCtx) is called
ReceiverEvent(c) ==
    /\ pc[c] \in {"Subscribed", "InHandler", "LoopEnded"}
    /\ receiver[c] = "idle"
    /\ receiver' = [receiver EXCEPT ![c] = "InHandler"]
    /\ lastOp' = [NoOp EXCEPT !.op = "receiverEvent", !.conn = c]
    /\ UNCHANGED othersOfReceiver

\* the handler called by the goroutine returns
ReceiverReturn(c) ==
    /\ receiver[c] = "InHandler"
    /\ receiver' = [receiver EXCEPT ![c] = "idle"]
    /\ lastOp' = [NoOp EXCEPT !.op = "receiverReturn", !.conn = c]
    /\ UNCHANGED othersOfReceiver

\* after the loop: done <- struct{}{} is taken by the goroutine's select
ReceiverStop(c) ==
    /\ pc[c] = "LoopEnded"
    /\ receiver[c] = "idle"
    /\ receiver' = [receiver EXCEPT ![c] = "stopped"]
    /\ lastOp' = [NoOp EXCEPT !.op = "receiverDone", !.conn = c]
    /\ UNCHANGED othersOfReceiver

\* removeConnection comes after the send on done
ReceiverExitRemove(c) == receiver[c] = "stopped" /\ ExitRemove(c)

NextReceiver ==
    \/ \E u \in Users : HandlerUpgrade(u, DomTopic)
    \/ \E c \in ConnIDs : HandlerGetStore(c)
    \/ \E c \in ConnIDs : HandlerSeed(c)
    \/ \E c \in LoopConns, msg \in InMsgs : ReadMessage(c, msg, TRUE)
    \/ \E c \in LoopConns : HandlerReturn(c, NilErr, TRUE)
    \/ \E c \in LoopConns : ReceiverEvent(c)
    \/ \E c \in LoopConns : ReceiverReturn(c)
    \/ \E c \in ConnIDs : ReadError(c)
    \/ \E c \in ConnIDs : ReceiverStop(c)
    \/ \E c \in ConnIDs : ReceiverExitRemove(c)
    \/ \E c \in ConnIDs : DeferredClose(c)

SpecReceiver == Init /\ [][NextReceiver]_vars

\* C26: event handling on one connection is serialized: at no time are two
\* handler invocations (OnEvent) of the same connection in progress, and the
\* session context's event is never written by one activity while another
\* handler invocation of that connection is in progress.
C26_HandlersSerialized ==
    /\ \A c \in ConnIDs : ~(pc[c] = "InHandler" /\ receiver[c] = "InHandler")
    /\ \A c \in ConnIDs :
           (lastOp.op = "receiverEvent" /\ lastOp.conn = c) => pc[c] # "InHandler"

----------------------------------------------------------------------------
(***************************************************************************)
(* message(topic, bytes) statement by statement, called by the handlers of *)
(* subscribed connections: the mutex of wc, the lookup, one write per      *)
(* connection of the topic, the unlock.                                    *)
(***************************************************************************)

\* the operations the handlers emit: dom.ToggleClassList, dom.Reload
CastOps ==
    {Operation("classlist", "#todo", [k \in {"done"} |-> TRUE]),
     Operation("reload", "", EmptyMap)}

\* a Lock that does not wait for the holder
RegistryLockIgnored == TRUE

\* wc.Lock() goes through only while no call holds the mutex
RegistryLockFree == wcLock = 0

\* a write that frames the message anew for each connection
WriteFramedPerConn(conn, prepared) == <<conn, prepared>>

\* conn.WritePreparedMessage(preparedMessage): the bytes the peer receives
WritePreparedMessage(conn, prepared) == prepared

\* a handler calls d.wc.message(d.topic, m.Bytes())
CastCall(d, m) ==
    /\ pc[d] = "Subscribed"
    /\ castPc[d] = "idle"
    /\ nextCast <= MaxCasts
    /\ pc' = [pc EXCEPT ![d] = "InHandler"]
    /\ castPc' = [castPc EXCEPT ![d] = "lock"]
    /\ cast' = [cast EXCEPT ![d] = [NoCast EXCEPT !.topic = connTopic[d], !.msg = Bytes(m)]]
    /\ lastOp' = [NoOp EXCEPT !.op = "call", !.conn = d]
    /\ UNCHANGED <<regVars, nextConn, connTopic, removed, wcLock, inbox, nextCast,
                   storeVars, callVars, mountVars, sessVars>>

\* wc.Lock(); NewPreparedMessage; conns, ok := wc.topicConnections[topic];
\* the range over conns starts, in some order
CastLock(d) ==
    /\ castPc[d] = "lock"
    /\ RegistryLockFree
    /\ wcLock' = d
    /\ \E order \in TopicOrders(cast[d].topic) :
           cast' = [cast EXCEPT ![d].todo = order, ![d].seq = nextCast]
    /\ nextCast' = nextCast + 1
    /\ castPc' = [castPc EXCEPT ![d] = "write"]
    /\ lastOp' = [NoOp EXCEPT !.op = "lock", !.conn = d]
    /\ UNCHANGED <<regVars, connVars, removed, inbox, storeVars, callVars, mountVars, sessVars>>

\* one pass of the range: err := conn.WritePreparedMessage(preparedMessage);
\* if err != nil { conn.Close(); continue }
CastWrite(d, netFails) ==
    /\ castPc[d] = "write"
    /\ cast[d].todo # <<>>
    /\ LET id == Head(cast[d].todo)
           conn == ConnOf(id)
       IN IF ~InTopic(cast[d].topic, id)
          THEN UNCHANGED <<closed, inbox>>
          ELSE IF closed[conn] \/ netFails
          THEN /\ closed' = [closed EXCEPT ![conn] = TRUE]
               /\ UNCHANGED inbox
          ELSE /\ inbox' = [inbox EXCEPT ![conn] =
                               Append(@, [seq |-> cast[d].seq, from |-> d,
                                          bytes |-> WritePreparedMessage(conn, cast[d].msg)])]
               /\ UNCHANGED closed
    /\ cast' = [cast EXCEPT ![d].todo = Tail(@)]
    /\ lastOp' = [NoOp EXCEPT !.op = "write", !.conn = d]
    /\ UNCHANGED <<topicConnections, connVars, removed, wcLock, castPc, nextCast,
                   storeVars, callVars, mountVars, sessVars>>

\* the range is over: defer wc.Unlock(), message returns to the handler
CastUnlock(d) ==
    /\ castPc[d] = "write"
    /\ cast[d].todo = <<>>
    /\ wcLock' = IF wcLock = d THEN 0 ELSE wcLock
    /\ castPc' = [castPc EXCEPT ![d] = "idle"]
    /\ cast' = [cast EXCEPT ![d] = NoCast]
    /\ pc' = [pc EXCEPT ![d] = "Subscribed"]
    /\ lastOp' = [NoOp EXCEPT !.op = "unlock", !.conn = d]
    /\ UNCHANGED <<regVars, nextConn, connTopic, removed, inbox, nextCast,
                   storeVars, callVars, mountVars, sessVars>>

\* addConnection and removeConnection take the same mutex
CastSubscribe(topic) == RegistryLockFree /\ Subscribe(topic)

CastExitRemove(c) == RegistryLockFree /\ ExitRemove(c)

NextBroadcast ==
    \/ \E t \in Topics : CastSubscribe(t)
    \/ \E d \in ConnIDs, m \in CastOps : CastCall(d, m)
    \/ \E d \in ConnIDs : CastLock(d)
    \/ \E d \in ConnIDs, netFails \in BOOLEAN : CastWrite(d, netFails)
    \/ \E d \in ConnIDs : CastUnlock(d)
    \/ \E c \in ConnIDs : ReadError(c)
    \/ \E c \in ConnIDs : CastExitRemove(c)
    \/ \E c \in ConnIDs : DeferredClose(c)

SpecBroadcast == Init /\ [][NextBroadcast]_vars

\* the goroutines are scheduled: a read on a closed handle returns its
\* error, a call waiting for wc's mutex gets it, a handler inside message
\* goes on to its return
EvictFairness ==
    \A c \in ConnIDs :
        /\ WF_vars(closed[ConnOf(c)] /\ ReadError(c))
        /\ SF_vars(CastExitRemove(c))
        /\ SF_vars(CastLock(c))
        /\ WF_vars(\E netFails \in BOOLEAN : CastWrite(c, netFails))
        /\ WF_vars(CastUnlock(c))

SpecEvict == Init /\ [][NextBroadcast]_vars /\ EvictFairness

\* C32: a connection whose handle a broadcast closed after a failed write,
\* and that is still in its topic's set, is eventually removed from it: its
\* read loop gets a read error and calls removeConnection.
C32_ClosedConnectionEvicted ==
    \A c \in ConnIDs :
        (closed[ConnOf(c)] /\ InTopic(connTopic[c], c)) ~> ~InTopic(connTopic[c], c)

\* the loop of a connection closed by a failed write has got its read
\* error; the connection is still registered
C32_Witness ==
    /\ lastOp.op = "readError"
    /\ \E c \in ConnIDs :
           /\ closed[ConnOf(c)] /\ pc[c] = "LoopEnded" /\ InTopic(connTopic[c], c)
           /\ \A e \in ConnIDs \ {c} : pc[e] # "LoopEnded"

----------------------------------------------------------------------------
(***************************************************************************)
(* The writes of a broadcast as two steps each (the write begins, the      *)
(* write returns), with messageAll called by the goroutine of              *)
(* watchTemplates, and the older broadcast of a DOM operation:             *)
(* writePreparedMessage over the map that getTopicConnections returned.    *)
(***************************************************************************)

\* the holder of wc's mutex while watchTemplates is in messageAll
Watcher == MaxConns + 1

othersOfWrite ==
    <<topicConnections, connVars, removed, storeVars, callVars, mountVars, sessVars>>

othersOfWatch ==
    <<topicConnections, connVars, removed, storeVars, mountVars, sessVars, castPc, cast,
      usersLock, callPc, callKey, callRet, created, userCount, drawn, datasetKey, receiver,
      locks, storeCall, marked, phase>>

\* conn.WritePreparedMessage(preparedMessage) is entered for the next
\* connection of the range
WriteBegin(d) ==
    /\ castPc[d] = "write"
    /\ cast[d].todo # <<>>
    /\ castPc' = [castPc EXCEPT ![d] = "writing"]
    /\ lastOp' = [NoOp EXCEPT !.op = "writeBegin", !.conn = d]
    /\ UNCHANGED <<closed, wcLock, cast, inbox, nextCast, othersOfWrite>>

\* it returns.  message: if err != nil { conn.Close(); continue };
\* writePreparedMessage: if err != nil { conn.Close(); return }
WriteEnd(d, netFails, returnOnError) ==
    /\ castPc[d] = "writing"
    /\ LET conn == ConnOf(Head(cast[d].todo))
       IN IF closed[conn] \/ netFails
          THEN /\ closed' = [closed EXCEPT ![conn] = TRUE]
               /\ cast' = [cast EXCEPT ![d].todo = IF returnOnError THEN <<>> ELSE Tail(@)]
               /\ UNCHANGED inbox
          ELSE /\ inbox' = [inbox EXCEPT ![conn] =
                               Append(@, [seq |-> cast[d].seq, from |-> d,
                                          bytes |-> WritePreparedMessage(conn, cast[d].msg)])]
               /\ cast' = [cast EXCEPT ![d].todo = Tail(@)]
               /\ UNCHANGED closed
    /\ castPc' = [castPc EXCEPT ![d] = "write"]
    /\ lastOp' = [NoOp EXCEPT !.op = "writeEnd", !.conn = d]
    /\ UNCHANGED <<wcLock, nextCast, othersOfWrite>>

\* a file of the templates changes: wc.messageAll(m.Bytes()) is called
WatchCall ==
    /\ watch.pc = "idle"
    /\ nextCast <= MaxCasts
    /\ watch' = [watch EXCEPT !.pc = "lock"]
    /\ lastOp' = [NoOp EXCEPT !.op = "call", !.conn = Watcher]
    /\ UNCHANGED <<closed, wcLock, inbox, nextCast, othersOfWatch>>

\* messageAll: wc.Lock(); NewPreparedMessage; the nested ranges start
WatchLock ==
    /\ watch.pc = "lock"
    /\ RegistryLockFree
    /\ wcLock' = Watcher
    /\ \E order \in NestedOrders :
           watch' = [pc |-> "write", todo |-> order, seq |-> nextCast]
    /\ nextCast' = nextCast + 1
    /\ lastOp' = [NoOp EXCEPT !.op = "lock", !.conn = Watcher]
    /\ UNCHANGED <<closed, inbox, othersOfWatch>>

\* messageAll: conn.WritePreparedMessage(preparedMessage) is entered
WatchBegin ==
    /\ watch.pc = "write"
    /\ watch.todo # <<>>
    /\ watch' = [watch EXCEPT !.pc = "writing"]
    /\ lastOp' = [NoOp EXCEPT !.op = "writeBegin", !.conn = Watcher]
    /\ UNCHANGED <<closed, wcLock, inbox, nextCast, othersOfWatch>>

\* messageAll: it returns; if err != nil { conn.Close(); continue }
WatchEnd(netFails) ==
    /\ watch.pc = "writing"
    /\ LET conn == Head(watch.todo)
       IN IF closed[conn] \/ netFails
          THEN /\ closed' = [closed EXCEPT ![conn] = TRUE]
               /\ UNCHANGED inbox
          ELSE /\ inbox' = [inbox EXCEPT ![conn] =
                               Append(@, [seq |-> watch.seq, from |-> Watcher,
                                          bytes |-> WritePreparedMessage(conn, Bytes(Operation("reload", "", EmptyMap)))])]
               /\ UNCHANGED closed
    /\ watch' = [watch EXCEPT !.pc = "write", !.todo = Tail(@)]
    /\ lastOp' = [NoOp EXCEPT !.op = "writeEnd", !.conn = Watcher]
    /\ UNCHANGED <<wcLock, nextCast, othersOfWatch>>

\* messageAll: the ranges are over, defer wc.Unlock()
WatchUnlock ==
    /\ watch.pc = "write"
    /\ watch.todo = <<>>
    /\ wcLock' = IF wcLock = Watcher THEN 0 ELSE wcLock
    /\ watch' = NoWatch
    /\ lastOp' = [NoOp EXCEPT !.op = "unlock", !.conn = Watcher]
    /\ UNCHANGED <<closed, inbox, nextCast, othersOfWatch>>

\* an addConnection that does not take the mutex
SubscribeUnlocked(topic) == Subscribe(topic)

\* wc.Lock() at the head of addConnection
LockedSubscribe(topic) == RegistryLockFree /\ Subscribe(topic)

NextLocked ==
    \/ \E t \in Topics : LockedSubscribe(t)
    \/ \E d \in ConnIDs, m \in CastOps : CastCall(d, m)
    \/ \E d \in ConnIDs : CastLock(d)
    \/ \E d \in ConnIDs : WriteBegin(d)
    \/ \E d \in ConnIDs, netFails \in BOOLEAN : WriteEnd(d, netFails, FALSE)
    \/ \E d \in ConnIDs : CastUnlock(d)
    \/ WatchCall
    \/ WatchLock
    \/ WatchBegin
    \/ \E netFails \in BOOLEAN : WatchEnd(netFails)
    \/ WatchUnlock
    \/ \E c \in ConnIDs : ReadError(c)
    \/ \E c \in ConnIDs : CastExitRemove(c)
    \/ \E c \in ConnIDs : DeferredClose(c)

SpecLocked == Init /\ [][NextLocked]_vars

\* the callers that are inside message / messageAll / writePreparedMessage
Broadcasting == {d \in ConnIDs : castPc[d] \in {"write", "writing"}}

WatchBroadcasting == watch.pc \in {"write", "writing"}

\* the connections on which a write is in progress, with the writer
WritesInProgress ==
    {<<d, ConnOf(Head(cast[d].todo))>> : d \in {e \in ConnIDs : castPc[e] = "writing"}}
    \cup (IF watch.pc = "writing" THEN {<<Watcher, Head(watch.todo)>>} ELSE {})

NoTwoWritesOnOneConn ==
    \A w1, w2 \in WritesInProgress : w1[2] = w2[2] => w1 = w2

\* the step just taken was an addConnection or a removeConnection
RegistryChanged == lastOp.op \in {"addConnection", "removeConnection"}

\* C29: addConnection, removeConnection, message and messageAll run under
\* the one mutex of wc from start to end: at most one message / messageAll
\* is in progress and it is the holder of the mutex, no addConnection or
\* removeConnection happens while one is in progress, and no two writes to
\* the same connection handle are in progress at the same time.
C29_RegistryOpsExclusive ==
    /\ \A d \in Broadcasting : wcLock = d
    /\ WatchBroadcasting => wcLock = Watcher
    /\ RegistryChanged => (Broadcasting = {} /\ ~WatchBroadcasting /\ wcLock = 0)
    /\ NoTwoWritesOnOneConn

\* messageAll is writing to a connection while a handler waits in message
\* for the mutex and another connection is registered
C29_Witness ==
    /\ watch.pc = "writing"
    /\ \E d \in ConnIDs : castPc[d] = "lock" /\ Head(watch.todo) = ConnOf(d)
    /\ Cardinality(AllConns) = 2

\* view.go onEvent, for an event: conns: v.wc.getTopicConnections(*topic),
\* which returns the topic's map itself (under the mutex, released on
\* return); v.view.OnEvent(sess) is called
MapCall(d, m) ==
    /\ pc[d] = "Subscribed"
    /\ castPc[d] = "idle"
    /\ nextCast <= MaxCasts
    /\ RegistryLockFree
    /\ pc' = [pc EXCEPT ![d] = "InHandler"]
    /\ castPc' = [castPc EXCEPT ![d] = "range"]
    /\ cast' = [cast EXCEPT ![d] = [NoCast EXCEPT !.topic = connTopic[d], !.msg = Bytes(m)]]
    /\ lastOp' = [NoOp EXCEPT !.op = "getTopicConnections", !.conn = d]
    /\ UNCHANGED <<regVars, nextConn, connTopic, removed, wcLock, inbox, nextCast,
                   storeVars, callVars, mountVars, sessVars>>

\* the handler's DOM operation: writePreparedMessage(m.Bytes(), d.conns, ...),
\* for topic, conn := range conns starts, in some order
MapRange(d) ==
    /\ castPc[d] = "range"
    /\ \E order \in TopicOrders(cast[d].topic) :
           cast' = [cast EXCEPT ![d].todo = order, ![d].seq = nextCast, ![d].seen = Range(order)]
    /\ nextCast' = nextCast + 1
    /\ castPc' = [castPc EXCEPT ![d] = "write"]
    /\ lastOp' = [NoOp EXCEPT !.op = "range", !.conn = d]
    /\ UNCHANGED <<closed, wcLock, inbox, othersOfWrite>>

\* the map was written by removeConnection while the range reads it (no
\* mutex is held): the range may pass over the deleted entry
MapSkipDeleted(d) ==
    /\ castPc[d] = "write"
    /\ cast[d].todo # <<>>
    /\ ~InTopic(cast[d].topic, Head(cast[d].todo))
    /\ cast' = [cast EXCEPT ![d].todo = Tail(@)]
    /\ lastOp' = [NoOp EXCEPT !.op = "skip", !.conn = d]
    /\ UNCHANGED <<closed, wcLock, castPc, inbox, nextCast, othersOfWrite>>

\* the map was written by addConnection while the range reads it: the
\* range may produce the added entry
MapSeeAdded(d) ==
    /\ castPc[d] = "write"
    /\ \E id \in ConnIDs :
           /\ InTopic(cast[d].topic, id)
           /\ id \notin cast[d].seen
           /\ cast' = [cast EXCEPT ![d].todo = Append(@, id), ![d].seen = @ \cup {id}]
    /\ lastOp' = [NoOp EXCEPT !.op = "seeAdded", !.conn = d]
    /\ UNCHANGED <<closed, wcLock, castPc, inbox, nextCast, othersOfWrite>>

\* the range is over (or a write failed): writePreparedMessage returns,
\* the handler returns
MapReturn(d) ==
    /\ castPc[d] = "write"
    /\ cast[d].todo = <<>>
    /\ castPc' = [castPc EXCEPT ![d] = "idle"]
    /\ cast' = [cast EXCEPT ![d] = NoCast]
    /\ pc' = [pc EXCEPT ![d] = "Subscribed"]
    /\ lastOp' = [NoOp EXCEPT !.op = "return", !.conn = d]
    /\ UNCHANGED <<regVars, nextConn, connTopic, removed, wcLock, inbox, nextCast,
                   storeVars, callVars, mountVars, sessVars>>

NextConnMap ==
    \/ \E t \in Topics : LockedSubscribe(t)
    \/ \E d \in ConnIDs, m \in CastOps : MapCall(d, m)
    \/ \E d \in ConnIDs : MapRange(d)
    \/ \E d \in ConnIDs : MapSkipDeleted(d)
    \/ \E d \in ConnIDs : MapSeeAdded(d)
    \/ \E d \in ConnIDs : WriteBegin(d)
    \/ \E d \in ConnIDs, netFails \in BOOLEAN : WriteEnd(d, netFails, TRUE)
    \/ \E d \in ConnIDs : MapReturn(d)
    \/ \E c \in ConnIDs : ReadError(c)
    \/ \E c \in ConnIDs : CastExitRemove(c)
    \/ \E c \in ConnIDs : DeferredClose(c)

SpecConnMap == Init /\ [][NextConnMap]_vars

\* the topic whose map the addConnection / removeConnection just taken wrote
ChangedTopic ==
    IF lastOp.op = "removeConnection" THEN lastOp.topic ELSE connTopic[nextConn - 1]

\* C30: a broadcast over the map obtained from getTopicConnections is
\* atomic with respect to addConnection and removeConnection on the same
\* topic: no add or remove writes the topic's map while a broadcast ranges
\* over it, and no two broadcasts are writing to the same connection at the
\* same time.
C30_MapBroadcastAtomic ==
    /\ RegistryChanged => \A d \in Broadcasting : cast[d].topic # ChangedTopic
    /\ NoTwoWritesOnOneConn

\* a write of the broadcast of d returns in this step
WriteReturns(d) == castPc[d] = "writing" /\ castPc'[d] = "write"

C31_Step ==
    \A d \in ConnIDs :
        WriteReturns(d) => cast'[d].todo = Tail(cast[d].todo)

\* C31: in writePreparedMessage over a connection map, a write that fails
\* closes that connection and the range goes on: when a write returns,
\* failed or not, the connections not yet written are still to be written.
C31_FailedWriteDoesNotAbort == [][C31_Step]_vars

----------------------------------------------------------------------------
(***************************************************************************)
(* The handler of a subscribed connection using its session context: DOM   *)
(* operations, Temporary, and the counter handler (Get count, Morph with   *)
(* count + 1).                                                             *)
(***************************************************************************)

\* the data the handlers pass to Morph: serializable, and with a value that
\* encoding/json cannot marshal
MorphDatas ==
    {[k \in {"count", "title"} |-> IF k = "count" THEN IntV(1) ELSE StrV("x")],
     [k \in {"title"} |-> ChanV]}

\* the keys the handlers mark with ctx.Temporary(k)
MarkableKeys == {"title"}

Call(kind, data, ok) == [kind |-> kind, data |-> data, ok |-> ok]

\* the calls the handlers make, each with the data it is given
DomCalls ==
    {Call("Morph", m, ok) : m \in MorphDatas, ok \in BOOLEAN}
    \cup {Call("SetAttributes", [k \in {"count", "selector"} |-> IF k = "count" THEN IntV(1) ELSE StrV("#a")], TRUE),
          Call("SetDataset", [k \in {"title"} |-> StrV("x")], TRUE),
          Call("ToggleClassList", [k \in {"done"} |-> BoolV(TRUE)], TRUE),
          Call("AddClass", [k \in {"done"} |-> BoolV(TRUE)], TRUE),
          Call("RemoveClass", [k \in {"done"} |-> BoolV(FALSE)], TRUE),
          Call("SetValue", [k \in {"count"} |-> IntV(1)], TRUE),
          Call("RemoveAttributes", EmptyMap, TRUE),
          Call("SetInnerHTML", EmptyMap, TRUE),
          Call("Reload", EmptyMap, TRUE)}

\* the one key of a one-entry map
OnlyKey(m) == CHOOSE k \in DOMAIN m : TRUE

\* the call made on the dom of connection d
DomCall(d, call) ==
    CASE call.kind = "SetAttributes" -> SetAttributes(d, "#a", call.data)
      [] call.kind = "Morph" -> Morph(d, "#a", "item", call.data, call.ok)
      [] call.kind = "SetDataset" -> SetDataset(d, "#a", call.data)
      [] call.kind = "ToggleClassList" -> ToggleClassList(d, "#a", call.data)
      [] call.kind = "AddClass" -> AddClass(d, "#a", OnlyKey(call.data))
      [] call.kind = "RemoveClass" -> RemoveClass(d, "#a", OnlyKey(call.data))
      [] call.kind = "SetValue" ->
             SetValue(d, Sel(TRUE, OnlyKey(call.data)), call.data[OnlyKey(call.data)])
      [] call.kind = "RemoveAttributes" -> RemoveAttributes(d, "#a", <<"hidden">>)
      [] call.kind = "SetInnerHTML" -> SetInnerHTML(d, "#a", "text")
      [] call.kind = "Reload" -> Reload(d)

\* the handler of d issues a DOM operation
DomStep(d, call) ==
    /\ pc[d] = "Subscribed"
    /\ DomCall(d, call)
    /\ domOp' = [NoDomOp EXCEPT !.kind = call.kind, !.conn = d, !.data = call.data, !.ok = call.ok]
    /\ UNCHANGED <<connVars, removed, stores, nextStore, callVars, mountVars, castVars,
                   event, tempKeys>>

\* the counter handler: ctx.Store().Get("count", &n), then
\* ctx.DOM().Morph(sel, tpl, M{"count": n + 1})
IncrementStep(d, ok) ==
    /\ pc[d] = "Subscribed"
    /\ LET r == Get(storeData[StoreOfConn(d)], "count", "int")
           data == [k \in {"count"} |-> IntV(r.val.n + 1)]
       IN /\ r.err = "nil"
          /\ r.val.n < MaxCount
          /\ Morph(d, "#count", "counter", data, ok)
          /\ domOp' = [kind |-> "Morph", conn |-> d, data |-> data, ok |-> ok, prior |-> r.val]
    /\ UNCHANGED <<connVars, removed, stores, nextStore, callVars, mountVars, castVars,
                   event, tempKeys>>

\* the handler of d calls ctx.Temporary(k)
TemporaryStep(d, k) ==
    /\ pc[d] = "Subscribed"
    /\ tempKeys' = [tempKeys EXCEPT ![d] = @ \cup {k}]
    /\ lastOp' = [NoOp EXCEPT !.op = "temporary", !.conn = d]
    /\ UNCHANGED <<regVars, connVars, removed, storeVars, callVars, mountVars, castVars,
                   event, domOp>>

NextDom ==
    \/ \E u \in Users : HandlerUpgrade(u, DomTopic)
    \/ \E c \in ConnIDs : HandlerGetStore(c)
    \/ \E c \in ConnIDs : HandlerSeed(c)
    \/ \E d \in LoopConns, call \in DomCalls : DomStep(d, call)
    \/ \E d \in LoopConns, ok \in BOOLEAN : IncrementStep(d, ok)
    \/ \E d \in LoopConns, k \in MarkableKeys : TemporaryStep(d, k)

SpecDom == Init /\ [][NextDom]_vars

\* the same, with removeConnection called for connections of the topic
\* while their handlers run: the topic of a handler may then be gone
DomRemove(c) ==
    /\ CallRemove(DomTopic, c)
    /\ lastOp'.present

NextDomOutcome ==
    \/ \E u \in Users : HandlerUpgrade(u, DomTopic)
    \/ \E c \in ConnIDs : HandlerGetStore(c)
    \/ \E c \in ConnIDs : HandlerSeed(c)
    \/ \E d \in LoopConns, call \in DomCalls : DomStep(d, call)
    \/ \E d \in LoopConns, k \in MarkableKeys : TemporaryStep(d, k)
    \/ \E c \in ConnIDs : DomRemove(c)

SpecDomOutcome == Init /\ [][NextDomOutcome]_vars

----------------------------------------------------------------------------
(***************************************************************************)
(* The turbo-stream session (session.go): a session value is made for each *)
(* event and handed to the handler; its methods have value receivers.      *)
(***************************************************************************)

\* temporaryKeys: []string{"action", "target", "targets", "template"}
TurboTemporaryKeys == {"action", "target", "targets", "template"}

\* for topic, conn := range s.conns { write; on error: conn.Close(); return }
RECURSIVE writeUntilFailure(_, _, _)
writeUntilFailure(order, conns, netFails) ==
    IF order = <<>> THEN NoWrites
    ELSE LET conn == conns[Head(order)]
         IN IF WriteFails(conn, netFails)
            THEN [attempted |-> {conn}, failed |-> {conn}]
            ELSE LET rest == writeUntilFailure(Tail(order), conns, netFails)
                 IN [attempted |-> {conn} \cup rest.attempted, failed |-> rest.failed]

\* s.writePreparedMessage(message) over s.conns, the map of the topic
sessionWrite(d, msg) ==
    \E order \in TopicOrders(connTopic[d]) :
        \E netFails \in {{}, OpenConns \cap Range(order)} :
            LET w == writeUntilFailure(order, topicConnections[connTopic[d]], netFails)
            IN /\ UNCHANGED topicConnections
               /\ closed' = [c \in DOMAIN closed |-> closed[c] \/ c \in w.failed]
               /\ lastOp' = [op |-> "sessionWrite", topic |-> connTopic[d], conn |-> d,
                             present |-> FALSE, attempted |-> w.attempted,
                             failed |-> w.failed, msg |-> msg]

\* s.write returns before it sends (no stream, no action, no target, or
\* the template fails)
NotSent(d) ==
    /\ lastOp' = [NoOp EXCEPT !.op = "notSent", !.conn = d]
    /\ UNCHANGED regVars

\* the loop over s.temporaryKeys and s.store.Set(data), as in setStore
sessionSet(d, data) == setStore(d, data)

\* (s session) render(turboStream, data): s.write, then the temporary keys
\* are deleted and the rest is Set, whether or not s.write sent anything
render(d, data, ok) ==
    /\ IF ExecuteTemplate("item", data, ok).err = "nil"
       THEN sessionWrite(d, <<"turbo-stream", "item", data>>)
       ELSE NotSent(d)
    /\ sessionSet(d, data)

\* (s session) ChangeDataset(target, data): returns when json.Marshal fails
ChangeDataset(d, target, data) ==
    IF \E k \in DOMAIN data : Marshal(data[k]).err # "nil"
    THEN Dropped(d)
    ELSE /\ sessionWrite(d, <<"dataset", target, data>>)
         /\ sessionSet(d, data)

\* (s session) ChangeClassList(target, data)
ChangeClassList(d, target, boolData) ==
    /\ sessionWrite(d, <<"classList", target, boolData>>)
    /\ sessionSet(d, boolData)

\* the calls the handlers make on the session
SessionCalls ==
    {Call("render", m, ok) : m \in MorphDatas, ok \in BOOLEAN}
    \cup {Call("ChangeDataset", m, TRUE) : m \in MorphDatas}
    \cup {Call("ChangeClassList", [k \in {"title"} |-> BoolV(TRUE)], TRUE)}

\* sess := session{...}; eventHandler(sess): a fresh session for the event
SessionEvent(d) ==
    /\ pc[d] = "Subscribed"
    /\ pc' = [pc EXCEPT ![d] = "InHandler"]
    /\ tempKeys' = [tempKeys EXCEPT ![d] = TurboTemporaryKeys]
    /\ marked' = [marked EXCEPT ![d] = {}]
    /\ lastOp' = [NoOp EXCEPT !.op = "event", !.conn = d]
    /\ UNCHANGED <<regVars, nextConn, connTopic, removed, storeVars, mountVars, castVars,
                   event, domOp, usersLock, callPc, callKey, callRet, created, userCount,
                   drawn, datasetKey, receiver, locks, storeCall, watch, phase>>

\* func (s session) Temporary(keys ...string): s is a copy of the session
\* of the caller; s.temporaryKeys = append(s.temporaryKeys, keys...) is an
\* assignment to the copy, which is dropped when the method returns
SessionTemporary(d, k) ==
    LET s == [temporaryKeys |-> tempKeys[d]]
        assigned == [s EXCEPT !.temporaryKeys = @ \cup {k}]
    IN /\ pc[d] = "InHandler"
       /\ k \in assigned.temporaryKeys
       /\ tempKeys' = tempKeys
       /\ marked' = [marked EXCEPT ![d] = @ \cup {k}]
       /\ lastOp' = [NoOp EXCEPT !.op = "temporary", !.conn = d]
       /\ UNCHANGED <<regVars, connVars, removed, storeVars, mountVars, castVars,
                      event, domOp, usersLock, callPc, callKey, callRet, created, userCount,
                      drawn, datasetKey, receiver, locks, storeCall, watch, phase>>

\* the handler calls an operation of the session
SessionStep(d, call) ==
    /\ pc[d] = "InHandler"
    /\ CASE call.kind = "render" -> render(d, call.data, call.ok)
         [] call.kind = "ChangeDataset" -> ChangeDataset(d, "#a", call.data)
         [] call.kind = "ChangeClassList" -> ChangeClassList(d, "#a", call.data)
    /\ domOp' = [NoDomOp EXCEPT !.kind = call.kind, !.conn = d, !.data = call.data, !.ok = call.ok]
    /\ UNCHANGED <<connVars, removed, stores, nextStore, callVars, mountVars, castVars,
                   event, tempKeys>>

\* eventHandler(sess) returns; the loop reads the next message
SessionReturn(d) ==
    /\ pc[d] = "InHandler"
    /\ pc' = [pc EXCEPT ![d] = "Subscribed"]
    /\ lastOp' = [NoOp EXCEPT !.op = "return", !.conn = d]
    /\ UNCHANGED <<regVars, nextConn, connTopic, removed, storeVars, callVars, mountVars,
                   castVars, sessVars>>

NextTurbo ==
    \/ \E u \in Users : HandlerUpgrade(u, DomTopic)
    \/ \E c \in ConnIDs : HandlerGetStore(c)
    \/ \E c \in ConnIDs : HandlerSeed(c)
    \/ \E d \in LoopConns : SessionEvent(d)
    \/ \E d \in LoopConns, k \in MarkableKeys : SessionTemporary(d, k)
    \/ \E d \in LoopConns, call \in SessionCalls : SessionStep(d, call)
    \/ \E d \in LoopConns : SessionReturn(d)

SpecTurbo == Init /\ [][NextTurbo]_vars

\* an operation of the session has just been made
AfterSessionOp == lastOp.op \in {"sessionWrite", "notSent", "dropped"}

C33_Step ==
    AfterSessionOp' =>
        LET d == domOp'.conn
            s == StoreOfConn(d)
        IN \A k \in marked[d] :
              /\ (k \in DOMAIN storeData'[s]) <=> (k \in DOMAIN storeData[s])
              /\ k \in DOMAIN storeData[s] => storeData'[s][k] = storeData[s][k]

\* C33: in the turbo-stream session a key passed to Temporary(k) during a
\* handler call is not written to the store by render, ChangeDataset or
\* ChangeClassList called afterwards in that handler call.
C33_MarkedKeysNotStored == [][C33_Step]_vars

----------------------------------------------------------------------------
(***************************************************************************)
(* The locks a request takes, one after the other: each goroutine serves   *)
(* one request, a sequence of operations of which each takes one lock, at  *)
(* its start, and releases it at its return.                               *)
(***************************************************************************)

\* Handler, first visit, upgrade: getUser (userCount.incr), then onEvent:
\* addConnection, getOrCreate, store.Put; an event whose handler issues a
\* DOM operation (message, then setStore's Put); removeConnection
UpgradeFirstVisit ==
    <<"getUser", "addConnection", "getOrCreate", "Put", "message", "Put", "removeConnection">>

\* the same with the user in the cookie: getUser takes no lock
UpgradeReturning ==
    <<"addConnection", "getOrCreate", "Put", "message", "Put", "removeConnection">>

\* Handler, first visit, no upgrade: getUser, then onMount: getOrCreate, Put
MountFirstVisit == <<"getUser", "getOrCreate", "Put">>

\* the requests served: two upgrades, each with its connection, and a mount
ProgramsOf(p) ==
    CASE p = 1 -> {UpgradeFirstVisit}
      [] p = 2 -> {UpgradeReturning}
      [] OTHER -> {MountFirstVisit}

\* the operation the goroutine p is at
OpOf(p) ==
    IF phase[p].at \in DOMAIN phase[p].prog THEN phase[p].prog[phase[p].at] ELSE "none"

RegistryOps == {"addConnection", "message", "removeConnection"}

\* what no step of a request changes by itself
othersOfRequest ==
    <<nextConn, pc, connTopic, removed, stores, nextStore, storeHist, mountVars, sessVars,
      castPc, cast, inbox, nextCast, usersLock, callKey, callRet, created, userCount, drawn,
      datasetKey, receiver, locks, watch, marked>>

othersOfGo ==
    <<registryVars, storeHist, mountVars, sessVars, castVars, userCount, drawn, datasetKey,
      receiver, locks, storeCall, watch, marked, phase>>

\* a request arrives and is given its goroutine
RequestBegin(p, prog) ==
    /\ phase[p] = NoPhase
    /\ phase' = [phase EXCEPT ![p] = [prog |-> prog, at |-> 1]]
    /\ UNCHANGED <<regVars, lastOp, storeData, wcLock, callPc, storeCall, othersOfRequest>>

\* the operation has returned and the goroutine goes on to the next one;
\* when getUser returns an error, Handler returns
RequestProceed(p) ==
    /\ callPc[p] \in {"done", "failed"}
    /\ OpOf(p) # "none"
    /\ phase' = [phase EXCEPT ![p].at =
                    IF callPc[p] = "failed" THEN Len(phase[p].prog) + 1 ELSE @ + 1]
    /\ callPc' = [callPc EXCEPT ![p] = "idle"]
    /\ storeCall' = [storeCall EXCEPT ![p] = NoStoreCall]
    /\ UNCHANGED <<regVars, lastOp, storeData, wcLock, othersOfRequest>>

\* addConnection, message or removeConnection is called
RegistryCall(p) ==
    /\ OpOf(p) \in RegistryOps
    /\ callPc[p] = "idle"
    /\ callPc' = [callPc EXCEPT ![p] = "lock"]
    /\ UNCHANGED <<regVars, lastOp, storeData, wcLock, storeCall, phase, othersOfRequest>>

\* wc.Lock()
RegistryLock(p) ==
    /\ OpOf(p) \in RegistryOps
    /\ callPc[p] = "lock"
    /\ RegistryLockFree
    /\ wcLock' = p
    /\ callPc' = [callPc EXCEPT ![p] = "body"]
    /\ UNCHANGED <<regVars, lastOp, storeData, storeCall, phase, othersOfRequest>>

\* the body of the operation, between wc.Lock() and the deferred Unlock:
\* the statements of addConnection, message and removeConnection take no
\* lock (they work on the maps and on the connection handles)
RegistryBody(p) ==
    /\ OpOf(p) \in RegistryOps
    /\ callPc[p] = "body"
    /\ CASE OpOf(p) = "addConnection" ->
               /\ addConnection(DomTopic, p, ConnOf(p))
               /\ lastOp' = [NoOp EXCEPT !.op = "addConnection"]
         [] OpOf(p) = "message" ->
               \E order \in TopicOrders(DomTopic) : \E netFails \in {{}, OpenConns} :
                   message(DomTopic, "m1", order, netFails)
         [] OpOf(p) = "removeConnection" ->
               /\ removeConnection(DomTopic, p)
               /\ lastOp' = [NoOp EXCEPT !.op = "removeConnection", !.topic = DomTopic,
                                         !.conn = p, !.present = InTopic(DomTopic, p)]
    /\ callPc' = [callPc EXCEPT ![p] = "unlock"]
    /\ UNCHANGED <<storeData, wcLock, storeCall, phase, othersOfRequest>>

\* an operation of the registry that returns with the mutex held
RegistryUnlockNever(p) ==
    /\ OpOf(p) \in RegistryOps
    /\ callPc[p] = "unlock"
    /\ callPc' = [callPc EXCEPT ![p] = "done"]
    /\ UNCHANGED <<regVars, lastOp, storeData, wcLock, storeCall, phase, othersOfRequest>>

\* defer wc.Unlock(), the operation returns
RegistryUnlock(p) ==
    /\ OpOf(p) \in RegistryOps
    /\ callPc[p] = "unlock"
    /\ wcLock' = 0
    /\ callPc' = [callPc EXCEPT ![p] = "done"]
    /\ UNCHANGED <<regVars, lastOp, storeData, storeCall, phase, othersOfRequest>>

\* the steps of getUser: userCount.incr under its lock, then the cookie
GetUserSteps(p) ==
    /\ OpOf(p) = "getUser"
    /\ \/ VisitCall(p)
       \/ VisitLock(p)
       \/ VisitRead(p)
       \/ VisitWrite(p)
       \/ VisitUnlock(p)
       \/ \E ok \in BOOLEAN : VisitSave(p, ok)

\* the steps of userSessions.getOrCreate under its lock
GetOrCreateSteps(p) ==
    /\ OpOf(p) = "getOrCreate"
    /\ \/ \E u \in Users : GoCall(p, u)
       \/ GoLock(p)
       \/ GoLookup(p)
       \/ GoCreate(p)
       \/ GoUnlock(p)
    /\ UNCHANGED othersOfGo

\* the steps of Put on the store that getOrCreate returned
PutSteps(p) ==
    /\ OpOf(p) = "Put"
    /\ \/ StoreCallPut(p, callRet[p], SeedCount, <<"count">>, FALSE)
       \/ StoreLock(p)
       \/ StoreWrite(p)
       \/ StoreUnlock(p)

\* the steps of the requests in progress
RequestSteps ==
    \/ \E p \in Callers : RequestProceed(p)
    \/ \E p \in Callers : GetUserSteps(p)
    \/ \E p \in Callers : GetOrCreateSteps(p)
    \/ \E p \in Callers : PutSteps(p)
    \/ \E p \in Callers : RegistryCall(p)
    \/ \E p \in Callers : RegistryLock(p)
    \/ \E p \in Callers : RegistryBody(p)
    \/ \E p \in Callers : RegistryUnlock(p)

NextRequests ==
    \/ \E p \in Callers : \E prog \in ProgramsOf(p) : RequestBegin(p, prog)
    \/ RequestSteps

SpecRequests == Init /\ [][NextRequests]_vars

\* the locks held by goroutine p
LocksHeld(p) ==
    (IF userCount.lock = p THEN {<<"count", 0>>} ELSE {})
    \cup (IF usersLock = p THEN {<<"users", 0>>} ELSE {})
    \cup (IF wcLock = p THEN {<<"registry", 0>>} ELSE {})
    \cup HeldBy(p)

\* p is blocked in Lock()
Waiting(p) == callPc[p] = "lock"

\* the lock p is blocked on
Wanted(p) ==
    CASE OpOf(p) = "getUser" -> <<"count", 0>>
      [] OpOf(p) = "getOrCreate" -> <<"users", 0>>
      [] OpOf(p) = "Put" -> LockOf(p)
      [] OTHER -> <<"registry", 0>>

HoldersOf(l) == {q \in Callers : l \in LocksHeld(q)}

\* a request is under way
Serving(p) == phase[p] # NoPhase /\ OpOf(p) # "none"

\* C38: no goroutine takes one of the four kinds of lock while it holds
\* another: it holds at most one lock and none while it waits for one;
\* whoever holds the lock a goroutine waits for is not waiting itself; and
\* whenever a request is under way, some request can take a step.
C38_NoNestedLocksNoDeadlock ==
    /\ \A p \in Callers : Cardinality(LocksHeld(p)) <= 1
    /\ \A p \in Callers : Waiting(p) => LocksHeld(p) = {}
    /\ \A p \in Callers : Waiting(p) => \A q \in HoldersOf(Wanted(p)) : ~Waiting(q)
    /\ (\E p \in Callers : Serving(p)) => ENABLED RequestSteps

\* three requests, each holding a lock of a different kind, or waiting for
\* one that another holds
C38_Witness ==
    \E p, q, r \in Callers :
        /\ LocksHeld(p) = {<<"registry", 0>>}
        /\ Waiting(q) /\ Wanted(q) = <<"registry", 0>>
        /\ \E l \in LocksHeld(r) : l[1] = "store"

----------------------------------------------------------------------------
(***************************************************************************)
(* Properties of the DOM operations, checked under SpecDom.  The state     *)
(* right after a DOM operation is one with lastOp.op "message" or          *)
(* "dropped"; domOp then tells the call that was made.                     *)
(***************************************************************************)

AfterDomOp == lastOp.op \in {"message", "dropped"}

\* the store of the user of the connection that made the last call
DomStore == storeData[StoreOfConn(domOp.conn)]

\* the keys of the call's data that are not temporary for its context
KeptKeys == DOMAIN domOp.data \ tempKeys[domOp.conn]

\* the DOM operations that end with d.setStore
StoringKinds ==
    {"SetAttributes", "SetDataset", "ToggleClassList", "AddClass", "RemoveClass", "SetValue",
     "Morph"}

\* a step that is a DOM operation of one of these kinds, past its template
C40_Step ==
    (lastOp'.op = "message" /\ domOp'.kind \in StoringKinds) =>
            LET d == domOp'.conn
                s == StoreOfConn(d)
                kept == StripTemporary(domOp'.data, tempKeys[d])
            IN /\ domOp'.ok
               /\ storeOp'.op = "Put"
               /\ (\A k \in DOMAIN kept : Marshal(kept[k]).err = "nil") =>
                      \A k \in DOMAIN kept :
                          Get(storeData'[s], k, "any") = [err |-> "nil", val |-> kept[k]]
               /\ DOMAIN storeData' = DOMAIN storeData
               /\ \A t \in DOMAIN storeData \ {s} : storeData'[t] = storeData[t]

\* C40: whatever the broadcast of a storing DOM operation did (the topic
\* has no connection map, every write failed, or the patch went to
\* connections of other users), the operation has called Put on the store
\* of its own user, the serializable data can be read back from it, and the
\* store of every other user is as it was.
C40_StoreIndependentOfBroadcast == [][C40_Step]_vars

\* every write of the broadcast failed, one of them to a connection of
\* another user, and the data is in the store of the caller's user
C40_Witness ==
    /\ lastOp.op = "message"
    /\ domOp.kind \in StoringKinds
    /\ lastOp.attempted # {}
    /\ lastOp.failed = lastOp.attempted
    /\ \E c \in ConnIDs : /\ InTopic(DomTopic, c)
                          /\ ConnOf(c) \in lastOp.attempted
                          /\ connUser[c] # connUser[domOp.conn]
    /\ KeptKeys # {}
    /\ \A k \in KeptKeys : Get(DomStore, k, "any") = [err |-> "nil", val |-> domOp.data[k]]

C16_AfterMorph == AfterDomOp /\ domOp.kind = "Morph" /\ domOp.ok

\* one operation with op "morph", rendered from the data, went to the topic
C16_Broadcast ==
    /\ lastOp.op = "message"
    /\ lastOp.topic = connTopic[domOp.conn]
    /\ lastOp.topic \in DOMAIN topicConnections
    /\ lastOp.attempted = Range(topicConnections[lastOp.topic])
    /\ lastOp.msg[2] = "morph"
    /\ lastOp.msg[6][2] = domOp.data

\* a following Get(k) returns D[k] for every non-temporary key k of D
C16_Stored ==
    \A k \in KeptKeys : Get(DomStore, k, "any") = [err |-> "nil", val |-> domOp.data[k]]

\* the counter handler leaves Get("count") at the value read plus one
C16_Incremented ==
    domOp.prior # NoValue =>
        Get(DomStore, "count", "int") = [err |-> "nil", val |-> IntV(domOp.prior.n + 1)]

C16_Serializable == \A k \in KeptKeys : Marshal(domOp.data[k]).err = "nil"

C17_BroadcastsAndStores ==
    (AfterDomOp /\ domOp.ok) => (lastOp.op = "message" /\ storeOp.op = "Put")

C18_Step ==
    (AfterDomOp' /\ domOp'.kind = "Morph" /\ ~domOp'.ok) =>
        /\ lastOp'.op = "dropped"
        /\ UNCHANGED <<regVars, stores, storeData>>
        /\ pc'[domOp'.conn] = "Subscribed"
        /\ InTopic(connTopic[domOp'.conn], domOp'.conn)

\* C18: when the template execution of a Morph fails, no operation is
\* broadcast, the store is left unchanged, the call returns to the handler
\* without an error, and the connection stays subscribed.
C18_FailedMorphIsDropped == [][C18_Step]_vars

\* a Morph dropped on a connection whose user's store holds data
C18_Witness ==
    /\ lastOp.op = "dropped"
    /\ domOp.kind = "Morph"
    /\ ~domOp.ok
    /\ "count" \in DOMAIN DomStore
    /\ pc[domOp.conn] = "Subscribed"

C20_Step ==
    AfterDomOp' =>
        LET d == domOp'.conn
            s == StoreOfConn(d)
        IN \A k \in tempKeys[d] :
              /\ (k \in DOMAIN storeData'[s]) <=> (k \in DOMAIN storeData[s])
              /\ k \in DOMAIN storeData[s] => storeData'[s][k] = storeData[s][k]

\* C20: a key marked with Temporary(k), and the default temporary keys
\* "selector" and "template", are not written to the store by a DOM operation
\* issued afterwards through the same context, even when the operation's
\* data contains them.
C20_TemporaryKeysNotStored == [][C20_Step]_vars

\* a Morph with "title" in its data after Temporary("title"): the rest of
\* the data is stored, "title" is not
C20_Witness ==
    /\ AfterDomOp
    /\ storeOp.op = "Put"
    /\ "title" \in tempKeys[domOp.conn] \ DefaultTemporaryKeys
    /\ "title" \in DOMAIN domOp.data
    /\ "count" \in DOMAIN domOp.data
    /\ Get(DomStore, "count", "int").val = domOp.data["count"]
    /\ "title" \notin DOMAIN DomStore

----------------------------------------------------------------------------
(***************************************************************************)
(* Properties of the broadcasts, checked under SpecBroadcast.              *)
(***************************************************************************)

\* C14: the message of a broadcast is serialized once, by the caller of
\* message, and every connection written in that broadcast receives those
\* bytes: two connections of a topic receive byte-identical messages for an
\* operation emitted by either of them.
C14_SameBytesToAll ==
    /\ \A c1, c2 \in ConnIDs : \A i \in DOMAIN inbox[c1], j \in DOMAIN inbox[c2] :
           inbox[c1][i].seq = inbox[c2][j].seq => inbox[c1][i].bytes = inbox[c2][j].bytes
    /\ \A d \in ConnIDs : castPc[d] = "write" =>
           \A c \in ConnIDs : \A i \in DOMAIN inbox[c] :
               inbox[c][i].seq = cast[d].seq => inbox[c][i].bytes = cast[d].msg

\* a class-toggle emitted by one of two connections of a topic, received by both
C14_Witness ==
    \E c1, c2 \in ConnIDs :
        /\ c1 # c2
        /\ connTopic[c1] = connTopic[c2]
        /\ \E i \in DOMAIN inbox[c1], j \in DOMAIN inbox[c2] :
               /\ inbox[c1][i].seq = inbox[c2][j].seq
               /\ inbox[c1][i].from = c1
               /\ inbox[c1][i].bytes = Bytes(Operation("classlist", "#todo", [k \in {"done"} |-> TRUE]))

\* C15: the messages of two broadcasts to a topic reach every connection
\* that receives both in the order in which the two calls of message
\* acquired the registry's mutex.
C15_DeliveredInLockOrder ==
    \A c \in ConnIDs : \A i, j \in DOMAIN inbox[c] :
        i < j => inbox[c][i].seq < inbox[c][j].seq

\* two broadcasts from different connections, both received by both
C15_Witness ==
    \E c1, c2 \in ConnIDs :
        /\ c1 # c2
        /\ Len(inbox[c1]) = 2
        /\ Len(inbox[c2]) = 2
        /\ inbox[c1][1].from # inbox[c1][2].from
        /\ inbox[c2][1].seq = 1
        /\ inbox[c2][2].seq = 2

----------------------------------------------------------------------------
(***************************************************************************)
(* Properties of the read loop, checked under SpecLoop.                    *)
(***************************************************************************)

C11_BadFrameInvokesNothing ==
    \A c \in ConnIDs :
        (event[c].read /\ Bad(event[c].msg)) => (event[c].calls = 0 /\ event[c].log = <<>>)

C11_BadFrameChangesNothing ==
    \A c \in ConnIDs :
        (pc[c] = "Subscribed" /\ event'[c].read /\ Bad(event'[c].msg)
            /\ (lastOp'.op = "read" \/ event'[c] # event[c]))
        => /\ UNCHANGED <<regVars, userVars>>
           /\ pc'[c] = "Subscribed"
           /\ lastOp'.op = "read"

\* C11: a frame that does not decode, or decodes to an empty id, invokes no
\* handler and emits no patch, changes neither the stores nor the registry,
\* and leaves the connection subscribed, reading the next frame.
C11_BadFrameDropped ==
    /\ []C11_BadFrameInvokesNothing
    /\ [][C11_BadFrameChangesNothing]_vars

\* a valid event handled on a connection right after a frame that was dropped
C11_Witness ==
    \E c \in ConnIDs :
        /\ event[c].prevBad
        /\ ~Bad(event[c].msg)
        /\ event[c].calls = 1
        /\ pc[c] = "InHandler"

ClearPatch == Bytes(Operation("morph", ErrorSelector, <<ErrorTemplate, EmptyMap>>))

ErrorPatch(err) ==
    Bytes(Operation("morph", ErrorSelector,
                    <<ErrorTemplate, [k \in {ErrorKey} |-> StrV(IF err.wrapped THEN err.inner ELSE "internal error")]>>))

\* the steps the loop has taken for the event of c, in order
C12_StepsInOrder(c) ==
    LET log == event[c].log
    IN /\ event[c].calls = 1
       /\ Len(log) >= 2
       /\ log[1].step = "unsetError"
       /\ log[2].step = "OnEvent"
       /\ \A i \in DOMAIN log : i > 2 => log[i].step = "setError"
       /\ pc[c] = "InHandler" => Len(log) = 2
       /\ pc[c] # "InHandler" => Len(log) = (IF event[c].err.nil THEN 2 ELSE 3)

\* the patches sent carry the clearing data and the public message
C12_PatchContents(c) ==
    LET log == event[c].log
    IN /\ log[1].sent => log[1].msg = ClearPatch
       /\ Len(log) = 3 => (log[3].sent => log[3].msg = ErrorPatch(event[c].err))

C12_Handled(c) == event[c].read /\ ~Bad(event[c].msg)

\* C12 as stated: every valid event has its clearing patch emitted first,
\* its handler invoked once and, on a handler error, the error patch with the
\* public message emitted after.
C12_PatchesAlwaysEmitted ==
    \A c \in ConnIDs :
        C12_Handled(c) =>
            /\ C12_StepsInOrder(c)
            /\ C12_PatchContents(c)
            /\ \A i \in DOMAIN event[c].log : event[c].log[i].step # "OnEvent" => event[c].log[i].sent

C12_EveryValidEvent ==
    \A c \in ConnIDs :
        C12_Handled(c) =>
            /\ C12_StepsInOrder(c)
            /\ C12_PatchContents(c)
            /\ \A i \in DOMAIN event[c].log :
                   event[c].log[i].step # "OnEvent" => (event[c].log[i].sent <=> event[c].log[i].ok)

C12_StaysSubscribed ==
    \A c \in ConnIDs : (pc[c] = "InHandler" /\ pc'[c] # "InHandler") => pc'[c] = "Subscribed"

\* C12 amended: for every valid event the loop first calls unsetError, then
\* invokes the handler exactly once and, if the handler returns an error,
\* then calls setError with the public message; each of the two emits its
\* patch exactly when the error template executes, and in every case the
\* connection is subscribed again when the handler has returned.
C12_ClearHandleReport ==
    /\ []C12_EveryValidEvent
    /\ [][C12_StaysSubscribed]_vars

\* the handler of c returned an error and the error patch was sent
C22_Reported(c) ==
    C12_Handled(c) /\ ~event[c].err.nil /\ Len(event[c].log) = 3 /\ event[c].log[3].sent

\* the public message in the error patch: the result of UserError(err)
C22_PublicMessage(c) == event[c].log[3].msg[6][2][ErrorKey].s

C22_InnerOrDefault(c) ==
    C22_PublicMessage(c) = (IF event[c].err.wrapped THEN event[c].err.inner ELSE "internal error")

C12_Witness ==
    \E c \in ConnIDs :
        /\ pc[c] = "Subscribed"
        /\ C12_Handled(c)
        /\ event[c].err.wrapped
        /\ Len(event[c].log) = 3
        /\ event[c].log[1].sent
        /\ event[c].log[3].sent

----------------------------------------------------------------------------
(***************************************************************************)
(* Properties of the registry, checked under SpecRegistry.                 *)
(***************************************************************************)
Registered(c) == \E t \in DOMAIN topicConnections : c \in DOMAIN topicConnections[t]

\* C1: when message(topic, bytes) returns, no connection whose write failed
\* during it is still a member of the topic's connection set.
C1_FailedWriteEvicted ==
    lastOp.op = "message" => \A c \in lastOp.failed : ~InTopic(lastOp.topic, c)

\* C2: a write failure in message or messageAll does not stop the broadcast:
\* every connection of the broadcast's set gets its write attempt, in every
\* iteration order (neither function returns anything to its caller).
C2_FailureDoesNotStopBroadcast ==
    /\ (lastOp.op = "message" /\ lastOp.topic \in DOMAIN topicConnections)
           => lastOp.attempted = Range(topicConnections[lastOp.topic])
    /\ lastOp.op = "messageAll" => lastOp.attempted = AllConns

\* a broadcast in which one write failed and a sibling was written
C2_Witness ==
    /\ lastOp.op \in {"message", "messageAll"}
    /\ lastOp.failed # {}
    /\ lastOp.attempted \ lastOp.failed # {}

\* C3: a message(t, msg) writes to every connection added to t and not removed
\* since, and attempts no write to a connection removeConnection was called for,
\* whatever adds, removes and broadcasts happened for other connection ids.
C3_AddedWrittenRemovedNot ==
    lastOp.op = "message" =>
        \A c \in ConnIDs :
            /\ (c < nextConn /\ connTopic[c] = lastOp.topic /\ c \notin removed)
                   => ConnOf(c) \in lastOp.attempted
            /\ c \in removed => ConnOf(c) \notin lastOp.attempted

\* a message to a topic one connection was removed from and another is still in
C3_Witness ==
    /\ lastOp.op = "message"
    /\ \E c \in removed : connTopic[c] = lastOp.topic
    /\ lastOp.attempted # {}

\* C9: every topic present in the registry maps to a non-empty connection set.
C9_NoEmptyTopic ==
    \A t \in DOMAIN topicConnections : DOMAIN topicConnections[t] # {}

\* the removal of a topic's last connection, after which the topic entry is gone
C9_Witness ==
    /\ lastOp.op = "removeConnection"
    /\ lastOp.present
    /\ lastOp.topic \notin DOMAIN topicConnections

C10_LoopEndUnregisters ==
    \A c \in ConnIDs :
        /\ pc[c] \in {"Unregistered", "Closed"} => ~Registered(c)
        /\ pc[c] = "Closed" => closed[ConnOf(c)]

C10_AbsentRemovalIsNoOp ==
    (lastOp'.op = "removeConnection" /\ ~lastOp'.present) => UNCHANGED regVars

C10_NeverRegisteredAgain ==
    \A c \in ConnIDs : (c < nextConn /\ ~Registered(c)) => ~Registered(c)'

\* C10: once the read loop of a connection has ended on a read error the
\* connection is in no topic's set and, when onEvent has returned, its handle
\* is closed; a removeConnection for a connection that is absent changes
\* neither the registry nor any handle; and a connection id that has left the
\* registry is never registered again.
C10_ReadErrorEndsConnection ==
    /\ []C10_LoopEndUnregisters
    /\ [][C10_AbsentRemovalIsNoOp /\ C10_NeverRegisteredAgain]_vars

\* the removal at the end of a read loop that finds the connection already removed
C10_Witness ==
    /\ lastOp.op = "removeConnection"
    /\ ~lastOp.present
    /\ lastOp.topic = connTopic[lastOp.conn]
    /\ pc[lastOp.conn] = "Unregistered"
    /\ closed[ConnOf(lastOp.conn)]

\* the topics in whose connection set c is
TopicsOf(c) == {t \in DOMAIN topicConnections : c \in DOMAIN topicConnections[t]}

\* C36: a connection id is in the connection set of at most one topic, the
\* one it subscribed to, and it is in a set only after its upgrade and before
\* the removeConnection that follows its read loop.
C36_OneTopicWhileServed ==
    \A c \in ConnIDs :
        /\ Cardinality(TopicsOf(c)) <= 1
        /\ TopicsOf(c) \subseteq {connTopic[c]}
        /\ TopicsOf(c) # {} => (c < nextConn /\ pc[c] \in {"Subscribed", "LoopEnded"})

\* one connection is in the set of its topic, in its loop, and another one,
\* of the other topic, has ended its loop and is in no set
C36_Witness ==
    \E c1, c2 \in ConnIDs :
        /\ TopicsOf(c1) = {connTopic[c1]}
        /\ pc[c1] = "Subscribed"
        /\ connTopic[c2] # connTopic[c1]
        /\ pc[c2] = "Closed"
        /\ TopicsOf(c2) = {}

C23_Step ==
    lastOp'.op = "messageAll" =>
        /\ lastOp'.attempted = AllConns
        /\ lastOp'.msg \in Msgs
        /\ UNCHANGED topicConnections

\* C23: messageAll(bytes) attempts a write of the bytes to every connection
\* registered under every topic, whatever the topic, and changes no topic's
\* membership.
C23_AllTopicsWritten == [][C23_Step]_vars

\* a messageAll that wrote to the connections of two topics
C23_Witness ==
    /\ lastOp.op = "messageAll"
    /\ Cardinality(DOMAIN topicConnections) = 2
    /\ Cardinality(lastOp.attempted) = 2
    /\ lastOp.failed = {}

C13_Step ==
    (lastOp'.op = "message" /\ lastOp'.topic \notin DOMAIN topicConnections)
        => /\ UNCHANGED <<regVars, userVars>>
           /\ lastOp'.attempted = {}
           /\ lastOp'.failed = {}

\* C13: message(topic, bytes) for a topic that is not in the registry writes
\* to no connection and leaves the registry and every store unchanged; it
\* hands no failure to its caller.
C13_AbsentTopicIsNoOp == [][C13_Step]_vars

\* a message to an absent topic while another topic has a connection
C13_Witness ==
    /\ lastOp.op = "message"
    /\ lastOp.topic \notin DOMAIN topicConnections
    /\ OpenConns # {}

----------------------------------------------------------------------------
(***************************************************************************)
(* Properties of the stores, checked under SpecStore.                      *)
(***************************************************************************)

\* C7: on a store whose Puts all succeeded, Get(k) returns the value given for
\* k by the most recent Put whose batch contained k, whatever other keys were
\* put in between.
C7_GetReturnsLatestPut ==
    \A s \in DOMAIN storeData \ failedPut :
        \A k \in DOMAIN lastPut[s] :
            Get(storeData[s], k, "int") = [err |-> "nil", val |-> lastPut[s][k]]

\* a key put twice with different values and then read back
C7_Witness ==
    /\ storeOp.op = "Get"
    /\ storeOp.err = "nil"
    /\ storeOp.val = IntV(12)
    /\ \E k \in Keys \ {storeOp.key} : k \in DOMAIN lastPut[storeOp.store]

C8_NeverPutNotFound ==
    /\ \A s \in DOMAIN storeData : \A k \in Keys \ everPut[s] : \A sh \in Shapes :
           Get(storeData[s], k, sh) = [err |-> "key not found", val |-> NoValue]
    /\ (storeOp.op = "Get" /\ storeOp.key \notin everPut[storeOp.store])
           => storeOp.err = "key not found"

C8_FailingGetChangesNothing ==
    (storeOp'.op = "Get" /\ storeOp'.err = "key not found") => UNCHANGED userVars

\* C8: Get(k) fails with "key not found" on a store k was never put into, also
\* when k was put into another user's store, and the failing Get leaves the
\* stores unchanged.
C8_GetOfMissingKey ==
    /\ []C8_NeverPutNotFound
    /\ [][C8_FailingGetChangesNothing]_vars

\* a Get that fails on one user's store for a key that another user's store holds
C8_Witness ==
    /\ storeOp.op = "Get"
    /\ storeOp.err = "key not found"
    /\ \E s \in DOMAIN storeData : s # storeOp.store /\ storeOp.key \in DOMAIN storeData[s]

=============================================================================
